---- MODULE Spec2Model ----
(***************************************************************************)
(* Structure assembly pipeline of AgenticPageIndex: the hierarchical tree  *)
(* assembler (tools/structure_processor.py), the index validation of the   *)
(* verifier (tools/structure_verifier.py), the token-budgeted chunker and  *)
(* the strategy selection of the extractor (tools/structure_extractor.py). *)
(*                                                                         *)
(* Python values are represented as follows.  An optional integer is a     *)
(* sequence of length at most one: None is <<>> and the integer n is       *)
(* <<n>>.  A structure index "a.b.c" is the sequence <<a, b, c>> of its    *)
(* components and a missing structure index is <<>>.  A title is the       *)
(* natural number that identifies the item.  A confidence is given in      *)
(* tenths (0.9 is 9).                                                      *)
(***************************************************************************)
EXTENDS Integers, Sequences, FiniteSets, TLC

VARIABLES
    items,          \* flat item list handed to build_tree_structure
    total_pages,    \* len(pages) handed to build_tree_structure
    tree,           \* value returned by build_tree_structure
    tree_pc,        \* "input" | "done" | "off"
    token_lengths,  \* token count of every page handed to the chunker
    max_tokens,     \* token budget of page_list_to_group_text
    overlap_page,   \* overlap width of page_list_to_group_text
    subsets,        \* chunks returned by page_list_to_group_text
    chunk_pc,       \* "input" | "done" | "off"
    context,        \* the PageIndexContext held by the caller of the tools
    pages,          \* len(context.load_pages()); 0 when there is no page
    checkpoint,     \* content of the checkpoint file of the session
    request,        \* arguments and oracle behaviour of the last tool call
    result,         \* value returned (or exception raised) by that call
    tool_pc         \* "input" | "ready" | "off"

tree_vars == <<items, total_pages, tree, tree_pc>>

chunk_vars == <<token_lengths, max_tokens, overlap_page, subsets, chunk_pc>>

tool_vars == <<context, pages, checkpoint, request, result, tool_pc>>

vars == <<items, total_pages, tree, tree_pc,
          token_lengths, max_tokens, overlap_page, subsets, chunk_pc,
          context, pages, checkpoint, request, result, tool_pc>>

----------------------------------------------------------------------------
(* Bounds of the model *)

MaxItems == 3       \* longest flat item list
MaxPage == 2        \* page count of the document
MaxChunkPages == 3  \* longest page list handed to the chunker
MaxPageTokens == 3  \* largest token count of one page
MaxBudget == 3      \* largest token budget
MaxOverlap == 2     \* largest overlap width
MaxExtracted == 2   \* most items an extraction run returns
MaxCalls == 2       \* most calls of a tool in one run
MaxTocItems == 2    \* most entries of a table of contents
MaxCorpusPages == 10  \* page count of the larger document
MaxBatchItems == 2  \* most items handed to the batcher
MaxItemTokens == 2  \* largest token count of one batch item
MaxBatchTokens == 3  \* largest token limit of a batch
MaxRounds == 6      \* rounds of the agent loop
MaxOffsetItems == 3  \* most TOC entries handed to calculate_page_offset
MaxNestItems == 3   \* longest list handed to list_to_tree on its own
MaxChunks == 2      \* most content chunks of one extraction

----------------------------------------------------------------------------
(* Program constants *)

LogKeep == 5                \* to_dict keeps the last 5 log steps
ConfTocWithPages == 9       \* confidence 0.9
ConfTocNoPages == 7         \* confidence 0.7
ConfNoToc == 6              \* confidence 0.6
ConfFallback == 5           \* confidence 0.5
ConfFailed == 0             \* confidence 0.0
ConfVerified == 10          \* confidence 1.0
ConfProcessed == 10         \* confidence 1.0
ConfParsed == 10            \* confidence 1.0
ConfTocAbsent == 10         \* confidence 1.0
ConfTocFound == 9           \* confidence 0.9
AccuracyThreshold == 6      \* accuracy_threshold 0.6

----------------------------------------------------------------------------
(* Python values *)

None == <<>>

Some(n) == <<n>>

\* Structure indices of the items: none, "1" and "1.1".
StructureValues == {None, <<1>>, <<1, 1>>}

PhysicalValues == {None} \cup {Some(p) : p \in 1..MaxPage}

----------------------------------------------------------------------------
(* tools/structure_processor.py *)

safe_int_conversion(value) ==
    IF value = None THEN None ELSE value

\* The start_index / end_index that the loop of build_tree_structure gives
\* to item i.
start_index_of_next(data, i) ==
    safe_int_conversion(data[IF i < Len(data) THEN i + 1 ELSE i].physical_index)

start_index_of(data, i) == safe_int_conversion(data[i].physical_index)

\* end_index_of without the "- 1" of line 228.
end_index_of_no_decrement(data, i, pagecount) ==
    IF i < Len(data)
    THEN LET next_physical_index ==
                 safe_int_conversion(data[i + 1].physical_index)
         IN  IF next_physical_index # None
             THEN next_physical_index
             ELSE start_index_of(data, i)
    ELSE Some(pagecount)

\* end_index_of taking the branch of the last item for every item.
end_index_of_always_last(data, i, pagecount) == Some(pagecount)

end_index_of(data, i, pagecount) ==
    IF i < Len(data)
    THEN LET next_physical_index ==
                 safe_int_conversion(data[i + 1].physical_index)
         IN  IF next_physical_index # None
             THEN IF data[i + 1].appear_start = "yes"
                  THEN Some(next_physical_index[1] - 1)
                  ELSE next_physical_index
             ELSE start_index_of(data, i)
    ELSE Some(pagecount)

add_start_end(data, pagecount) ==
    [i \in 1..Len(data) |->
        [title        |-> data[i].title,
         structure    |-> data[i].structure,
         physical_index |-> data[i].physical_index,
         appear_start |-> data[i].appear_start,
         start_index  |-> start_index_of(data, i),
         end_index    |-> end_index_of(data, i, pagecount)]]

\* get_parent_structure naming the top-level section instead of the index
\* without its last component.
get_parent_structure_top(structure) ==
    IF structure = None THEN None
    ELSE IF Len(structure) > 1 THEN <<structure[1]>> ELSE None

get_parent_structure(structure) ==
    IF structure = None THEN None
    ELSE IF Len(structure) > 1
         THEN SubSeq(structure, 1, Len(structure) - 1)
         ELSE None

\* The loop of list_to_tree over data[i..]: st.nodes is the dict from a
\* structure index to the node created last for it, st.root_nodes the list
\* of roots and st.kids[k] the 'nodes' list of the node made from data[k].
RECURSIVE place_nodes(_, _, _)
place_nodes(data, i, st) ==
    IF i > Len(data) THEN st
    ELSE LET structure == data[i].structure
             nodes1 == (structure :> i) @@ st.nodes
             parent_structure == get_parent_structure(structure)
         IN  IF parent_structure # None /\ parent_structure \in DOMAIN nodes1
             THEN place_nodes(data, i + 1,
                      [nodes |-> nodes1,
                       root_nodes |-> st.root_nodes,
                       kids |-> [st.kids EXCEPT ![nodes1[parent_structure]] =
                                    Append(@, i)]])
             ELSE place_nodes(data, i + 1,
                      [nodes |-> nodes1,
                       root_nodes |-> Append(st.root_nodes, i),
                       kids |-> st.kids])

\* A tree is the list of its roots, the child list of every node and the
\* attributes of the nodes; a node is named by its position in data.
list_to_tree(data) ==
    LET st == place_nodes(data, 1,
                  [nodes |-> <<>>, root_nodes |-> <<>>,
                   kids |-> [k \in 1..Len(data) |-> <<>>]])
    IN  [root_nodes |-> st.root_nodes, kids |-> st.kids, node |-> data]

\* build_tree_structure with the filter of line 240 enabled.
build_tree_structure_valid_items(data, pagecount) ==
    list_to_tree(SelectSeq(add_start_end(data, pagecount),
                           LAMBDA item : item.start_index # None))

build_tree_structure(data, pagecount) ==
    list_to_tree(add_start_end(data, pagecount))

\* The synthetic item of add_preface_if_needed: structure "0", the title
\* "Preface" (title 0 here) and page 1.
preface_node == [structure |-> <<0>>, title |-> 0, physical_index |-> <<1>>]

\* add_preface_if_needed without the test for a first item without a page.
add_preface_if_needed_first_page_only(structure) ==
    IF structure = <<>>
    THEN <<preface_node>>
    ELSE LET first_item_index ==
                 safe_int_conversion(structure[1].physical_index)
         IN  IF first_item_index # None /\ first_item_index[1] > 1
             THEN <<preface_node>> \o structure
             ELSE structure

add_preface_if_needed(structure) ==
    LET first_item_index ==
            IF structure # <<>>
            THEN safe_int_conversion(structure[1].physical_index)
            ELSE None
    IN  IF structure = <<>> \/ first_item_index = None
              \/ first_item_index[1] > 1
        THEN <<preface_node>> \o structure
        ELSE structure

\* check_section_starts: starts[i] says whether the title of item i is
\* found in the first 150 characters of its page.
check_section_starts(data, npages, starts) ==
    [i \in 1..Len(data) |->
        LET page_idx == safe_int_conversion(data[i].physical_index)
        IN  [title |-> data[i].title,
             structure |-> data[i].structure,
             physical_index |-> data[i].physical_index,
             appear_start |->
                 IF page_idx = None
                       \/ ~(0 < page_idx[1] /\ page_idx[1] <= npages)
                 THEN "unknown" ELSE starts[i]]]

\* Lines 83-96 of structure_processor_tool: the preface, the section
\* starts and the tree; process_large_nodes_recursive changes no node.
assemble(structure_verified, npages, starts) ==
    build_tree_structure(
        check_section_starts(add_preface_if_needed(structure_verified),
                             npages, starts),
        npages)

----------------------------------------------------------------------------
(* tools/structure_extractor.py: the token-budgeted chunker *)

RECURSIVE SumSeq(_)
SumSeq(s) == IF s = <<>> THEN 0 ELSE Head(s) + SumSeq(Tail(s))

Max(a, b) == IF a >= b THEN a ELSE b

\* math.ceil(a / b) for a >= 0 and b > 0.
CeilDiv(a, b) == (a + b - 1) \div b

\* Pages first..last as a chunk; a chunk is the sequence of the numbers of
\* the pages whose texts are joined into it.
PageRun(first, last) == [j \in 1..(last - first + 1) |-> first + j - 1]

expected_parts_num(num_tokens, budget) == CeilDiv(num_tokens, budget)

\* math.ceil(((num_tokens / expected_parts_num) + max_tokens) / 2)
average_tokens_per_part(num_tokens, budget) ==
    LET parts == expected_parts_num(num_tokens, budget)
    IN  CeilDiv(num_tokens + budget * parts, 2 * parts)

\* group_step appending the page only to a chunk that was not just closed.
group_step_skip_page(lengths, average, overlap, i, st) ==
    IF st.current_token_count + lengths[i] > average
    THEN LET overlap_start == Max(i - 1 - overlap, 0) + 1
         IN  [subsets |-> Append(st.subsets, st.current_subset),
              current_subset |-> PageRun(overlap_start, i - 1),
              current_token_count |->
                  SumSeq(SubSeq(lengths, overlap_start, i - 1))]
    ELSE [subsets |-> st.subsets,
          current_subset |-> Append(st.current_subset, i),
          current_token_count |-> st.current_token_count + lengths[i]]

\* One iteration of the loop of page_list_to_group_text, for page i
\* (Python index i - 1).
group_step(lengths, average, overlap, i, st) ==
    LET page_tokens == lengths[i]
        close == st.current_token_count + page_tokens > average
        overlap_start == Max(i - 1 - overlap, 0) + 1
        subsets1 == IF close THEN Append(st.subsets, st.current_subset)
                    ELSE st.subsets
        current1 == IF close THEN PageRun(overlap_start, i - 1)
                    ELSE st.current_subset
        count1 == IF close THEN SumSeq(SubSeq(lengths, overlap_start, i - 1))
                  ELSE st.current_token_count
    IN  [subsets |-> subsets1,
         current_subset |-> Append(current1, i),
         current_token_count |-> count1 + page_tokens]

RECURSIVE group_loop(_, _, _, _, _)
group_loop(lengths, average, overlap, i, st) ==
    IF i > Len(lengths) THEN st
    ELSE group_loop(lengths, average, overlap, i + 1,
                    group_step(lengths, average, overlap, i, st))

page_list_to_group_text(lengths, budget, overlap) ==
    LET num_tokens == SumSeq(lengths)
    IN  IF num_tokens <= budget
        THEN <<PageRun(1, Len(lengths))>>
        ELSE LET st == group_loop(lengths,
                           average_tokens_per_part(num_tokens, budget),
                           overlap, 1,
                           [subsets |-> <<>>, current_subset |-> <<>>,
                            current_token_count |-> 0])
             IN  IF st.current_subset # <<>>
                 THEN Append(st.subsets, st.current_subset)
                 ELSE st.subsets

\* Token sum of a chunk.
ChunkTokens(lengths, chunk) ==
    SumSeq([j \in 1..Len(chunk) |-> lengths[chunk[j]]])

----------------------------------------------------------------------------
(* core/context.py *)

Event(tool, status) == [tool |-> tool, status |-> status]

log_step(ctx, tool, status) ==
    [ctx EXCEPT !.processing_log = Append(@, Event(tool, status)),
                !.current_step = <<tool, status>>]

RECURSIVE log_steps(_, _, _)
log_steps(ctx, tool, statuses) ==
    IF statuses = <<>> THEN ctx
    ELSE log_steps(log_step(ctx, tool, Head(statuses)), tool, Tail(statuses))

\* s[-n:]
LastN(s, n) == IF Len(s) <= n THEN s ELSE SubSeq(s, Len(s) - n + 1, Len(s))

to_dict(ctx) ==
    [toc_info |-> ctx.toc_info,
     structure_raw |-> ctx.structure_raw,
     structure_verified |-> ctx.structure_verified,
     structure_final |-> ctx.structure_final,
     processing_log |-> LastN(ctx.processing_log, LogKeep),
     current_step |-> ctx.current_step]

from_dict(data) ==
    [toc_info |-> data.toc_info,
     structure_raw |-> data.structure_raw,
     structure_verified |-> data.structure_verified,
     structure_final |-> data.structure_final,
     processing_log |-> data.processing_log,
     current_step |-> data.current_step]

\* PageIndexContext.__init__; the empty toc_info answers every .get with
\* None, which the tools read as false.  structure_final is None while it
\* is the empty dictionary and Some(tree) once the processor has set it.
NewContext ==
    [toc_info |-> [found |-> FALSE, has_page_numbers |-> FALSE],
     structure_raw |-> <<>>,
     structure_verified |-> <<>>,
     structure_final |-> None,
     processing_log |-> <<>>,
     current_step |-> <<"initialized">>]

\* asdict(self) as written by save_checkpoint.
save_checkpoint(ctx) == ctx

NoCheckpoint == <<>>

----------------------------------------------------------------------------
(* tools/structure_extractor.py: structure_extractor_tool *)

Strategies == {"toc_with_pages", "toc_no_pages", "no_toc", "invalid_strategy"}

\* An item as an extraction run returns it.
ExtractedItem(n) ==
    [title |-> n, structure |-> <<n>>, physical_index |-> Some(1)]

ExtractedLists == {[n \in 1..k |-> ExtractedItem(n)] : k \in 0..MaxExtracted}

\* What one run of an extraction function does, as far as its caller sees:
\* the steps it logs, then either the item list it returns or an exception
\* that escapes it (the OpenAI client cannot be created, the oracle's JSON
\* has the wrong shape, ...).
Run(events, raised, list) ==
    [events |-> events, raised |-> raised, items |-> list]

\* extract_with_toc_pages
TocWithPagesRuns ==
    {Run(<<"transforming_toc", "matching_physical_indices">>, FALSE, l) :
        l \in ExtractedLists}
    \cup {Run(<<"transforming_toc">>, TRUE, <<>>),
          Run(<<"transforming_toc", "matching_physical_indices">>, TRUE, <<>>)}

\* extract_with_toc_no_pages
TocNoPagesRuns ==
    {Run(<<"transforming_toc", "matching_content_to_structure">> \o tail,
         FALSE, l) :
        tail \in {<<>>, <<"batch_toc_matching_success">>,
                  <<"batch_toc_matching_failed">>},
        l \in ExtractedLists}
    \cup {Run(<<"transforming_toc">>, TRUE, <<>>),
          Run(<<"transforming_toc", "matching_content_to_structure">>,
              TRUE, <<>>),
          Run(<<"transforming_toc", "matching_content_to_structure",
                "batch_toc_matching_failed">>, TRUE, <<>>)}

\* extract_without_toc
NoTocRuns ==
    {Run(<<"analyzing_content_structure", "generating_structure">> \o tail,
         FALSE, l) :
        tail \in {<<>>, <<"batch_structure_generation_success">>,
                  <<"batch_structure_generation_failed">>},
        l \in ExtractedLists}
    \cup {Run(<<"analyzing_content_structure">>, TRUE, <<>>),
          Run(<<"analyzing_content_structure", "generating_structure">>,
              TRUE, <<>>),
          Run(<<"analyzing_content_structure", "generating_structure",
                "batch_structure_generation_failed">>, TRUE, <<>>)}

TocRuns(strategy) ==
    IF strategy = "toc_with_pages" THEN TocWithPagesRuns
    ELSE IF strategy = "toc_no_pages" THEN TocNoPagesRuns
    ELSE {Run(<<>>, FALSE, <<>>)}

\* The precondition of a TOC strategy (lines 53 and 71).
toc_precondition(toc_info, strategy) ==
    IF strategy = "toc_with_pages"
    THEN toc_info.found /\ toc_info.has_page_numbers
    ELSE toc_info.found

\* Outcomes of the try block: a return, or an exception of the named class.
Returned(ctx, strategy, confidence) ==
    [exc |-> "none", ctx |-> ctx, strategy |-> strategy,
     confidence |-> confidence, error |-> "none"]

Raised(class, ctx, strategy, error) ==
    [exc |-> class, ctx |-> ctx, strategy |-> strategy,
     confidence |-> ConfFailed, error |-> error]

\* confidence of a no_toc run, without the lower value for a fallback.
no_toc_confidence_same(fallback_attempted) == ConfNoToc

\* confidence = 0.6 if not fallback_attempted else 0.5
no_toc_confidence(fallback_attempted) ==
    IF ~fallback_attempted THEN ConfNoToc ELSE ConfFallback

\* The try block of structure_extractor_tool (lines 27-120), up to the
\* checkpoint and the return.
extractor_try(data, npages, strategy, toc_run, no_toc_run) ==
    LET c0 == log_step(from_dict(data), "structure_extractor", "started")
        is_toc == strategy \in {"toc_with_pages", "toc_no_pages"}
        fallback_attempted ==
            is_toc /\ ~toc_precondition(c0.toc_info, strategy)
        runs_toc == is_toc /\ ~fallback_attempted
        c1 == IF fallback_attempted
              THEN log_step(c0, "structure_extractor", "strategy_fallback")
              ELSE c0
        strategy1 == IF fallback_attempted THEN "no_toc" ELSE strategy
        c2 == IF runs_toc
              THEN log_steps(c1, "structure_extractor", toc_run.events)
              ELSE c1
        raw2 == IF runs_toc THEN Some(toc_run.items) ELSE None
        confidence2 ==
            IF ~runs_toc THEN ConfFailed
            ELSE IF strategy = "toc_with_pages" THEN ConfTocWithPages
            ELSE ConfTocNoPages
        runs_no_toc == strategy1 = "no_toc"
        c3 == IF runs_no_toc
              THEN log_steps(c2, "structure_extractor", no_toc_run.events)
              ELSE c2
        raw3 == IF runs_no_toc THEN Some(no_toc_run.items) ELSE raw2
        confidence3 == IF runs_no_toc
                       THEN no_toc_confidence(fallback_attempted)
                       ELSE confidence2
    IN  IF npages = 0
        THEN Raised("PageIndexToolError", c0, strategy, "no_pages")
        ELSE IF runs_toc /\ toc_run.raised
        THEN Raised("Exception", c2, strategy1, "unexpected")
        ELSE IF runs_no_toc /\ no_toc_run.raised
        THEN Raised("Exception", c3, strategy1, "unexpected")
        ELSE IF raw3 = None
        THEN Raised("PageIndexToolError", c3, strategy1, "unknown_strategy")
        ELSE IF raw3[1] = <<>>
        THEN Raised("PageIndexToolError", c3, strategy1, "no_structure")
        ELSE Returned(
                 log_step([c3 EXCEPT !.structure_raw = raw3[1]],
                          "structure_extractor", "completed"),
                 strategy1, confidence3)

\* What a tool call gives its caller: the returned dictionary, or the
\* exception that escaped the tool, and the checkpoint it wrote.
ToolReturn(tool, success, ctx, confidence, metrics, error) ==
    [result |-> [tool |-> tool, raised |-> FALSE, success |-> success,
                 context |-> to_dict(ctx), confidence |-> confidence,
                 metrics |-> metrics, error |-> error],
     checkpoint |-> save_checkpoint(ctx)]

\* An escaping exception leaves the checkpoint file as it was.
ToolRaise(tool, error) ==
    [result |-> [tool |-> tool, raised |-> TRUE, success |-> FALSE,
                 context |-> <<>>, confidence |-> ConfFailed,
                 metrics |-> <<>>, error |-> error],
     checkpoint |-> NoCheckpoint]

\* The handlers with "except Exception" (lines 172-191) missing.
extractor_handlers_tool_error_only(t) ==
    IF t.exc = "none"
    THEN ToolReturn("structure_extractor", TRUE, t.ctx, t.confidence,
                    [strategy_used |-> t.strategy,
                     items_extracted |-> Len(t.ctx.structure_raw)], "none")
    ELSE IF t.exc = "PageIndexToolError"
    THEN ToolReturn("structure_extractor", FALSE,
                    log_step(t.ctx, "structure_extractor", "failed"),
                    ConfFailed, <<>>, t.error)
    ELSE ToolRaise("structure_extractor", t.error)

\* The return of the try block and the two except clauses (lines 119-191):
\* both clauses log the failure, save the checkpoint and return.
extractor_handlers(t) ==
    IF t.exc = "none"
    THEN ToolReturn("structure_extractor", TRUE, t.ctx, t.confidence,
                    [strategy_used |-> t.strategy,
                     items_extracted |-> Len(t.ctx.structure_raw)], "none")
    ELSE ToolReturn("structure_extractor", FALSE,
                    log_step(t.ctx, "structure_extractor", "failed"),
                    ConfFailed, <<>>, t.error)

structure_extractor_tool(data, npages, strategy, toc_run, no_toc_run) ==
    extractor_handlers(
        extractor_try(data, npages, strategy, toc_run, no_toc_run))

----------------------------------------------------------------------------
(* tools/structure_verifier.py *)

\* One iteration of the loop of validate_and_truncate_indices, appending
\* the copy of an item whose page exceeds the document.
validate_step_keep(item, page_count, acc) ==
    IF item.physical_index # None /\ item.physical_index[1] > page_count
    THEN [validated |-> Append(acc.validated,
                               [item EXCEPT !.physical_index = None]),
          truncated_count |-> acc.truncated_count + 1,
          events |-> Append(acc.events, "truncated_index")]
    ELSE [validated |-> Append(acc.validated, item),
          truncated_count |-> acc.truncated_count,
          events |-> acc.events]

\* One iteration of the loop of validate_and_truncate_indices (lines
\* 317-332): item_copy is made and counted but not appended.
validate_step(item, page_count, acc) ==
    IF item.physical_index # None /\ item.physical_index[1] > page_count
    THEN [validated |-> acc.validated,
          truncated_count |-> acc.truncated_count + 1,
          events |-> Append(acc.events, "truncated_index")]
    ELSE [validated |-> Append(acc.validated, item),
          truncated_count |-> acc.truncated_count,
          events |-> acc.events]

RECURSIVE validate_loop(_, _, _, _)
validate_loop(structure, page_count, i, acc) ==
    IF i > Len(structure) THEN acc
    ELSE validate_loop(structure, page_count, i + 1,
                       validate_step(structure[i], page_count, acc))

\* The validated list and the steps logged on the way.
validate_and_truncate_indices(structure, page_count) ==
    LET acc == validate_loop(structure, page_count, 1,
                   [validated |-> <<>>, truncated_count |-> 0,
                    events |-> <<>>])
    IN  [validated |-> acc.validated,
         events |-> IF acc.truncated_count > 0
                    THEN Append(acc.events, "validation_complete")
                    ELSE acc.events]

\* The 'list_index' that verify_structure_accuracy writes into the sampled
\* items; the item dictionaries are shared with structure_raw.
with_list_index(structure) ==
    [i \in 1..Len(structure) |-> [list_index |-> i - 1] @@ structure[i]]

\* structure_raw after the verification: an item that was kept carries the
\* list_index of its position among the kept items.
raw_after_verify(structure, page_count) ==
    [i \in 1..Len(structure) |->
        IF structure[i].physical_index # None
              /\ structure[i].physical_index[1] > page_count
        THEN structure[i]
        ELSE [list_index |->
                 Len(validate_and_truncate_indices(
                         SubSeq(structure, 1, i), page_count).validated) - 1]
             @@ structure[i]]

\* check_title_on_page: an item without a page or on a page before the
\* first answers 'no' without a request (lines 166-167); the items come
\* from validate_and_truncate_indices, so none is past the last page.
check_title_on_page(item, answer) ==
    IF item.physical_index = None \/ item.physical_index[1] < 1
    THEN "no"
    ELSE answer

\* verify_structure_accuracy without the filter of line 124: an item
\* without a page is checked too and check_title_on_page answers 'no'.
verify_structure_accuracy_unfiltered(structure, answers) ==
    LET valid == 1..Len(structure)
        correct == {i \in valid :
                       check_title_on_page(structure[i], answers[i]) = "yes"}
    IN  [accuracy |-> IF valid = {} THEN <<0, 1>>
                      ELSE <<Cardinality(correct), Cardinality(valid)>>,
         incorrect_items |-> Cardinality(valid \ correct)]

\* verify_structure_accuracy for a list of at most 20 items, all of which
\* are sampled: answers[i] is the oracle's answer for the item at position
\* i.  The accuracy correct / valid is the pair <<correct, valid>>, and
\* 0.0 is <<0, 1>>.
verify_structure_accuracy(structure, answers) ==
    LET valid == {i \in 1..Len(structure) :
                     structure[i].physical_index # None}
        correct == {i \in valid :
                       check_title_on_page(structure[i], answers[i]) = "yes"}
    IN  [accuracy |-> IF valid = {} THEN <<0, 1>>
                      ELSE <<Cardinality(correct), Cardinality(valid)>>,
         incorrect_items |-> Cardinality(valid \ correct)]

\* The try block of structure_verifier_tool from the loading of the pages
\* on (lines 30-68); reading the configuration is not modelled.
verifier_try(data, npages, answers) ==
    LET c0 == log_step(from_dict(data), "structure_verifier", "started")
        c1 == log_step(c0, "structure_verifier", "validating_indices")
        v == validate_and_truncate_indices(c0.structure_raw, npages)
        c2 == log_steps(c1, "structure_verifier", v.events)
        c3 == log_step(c2, "structure_verifier", "verifying_accuracy")
        a == verify_structure_accuracy(v.validated, answers)
        c4 == log_step(c3, "structure_verifier", "verification_complete")
    IN  IF npages = 0
        THEN [exc |-> "PageIndexToolError", ctx |-> c0, error |-> "no_pages",
              metrics |-> <<>>]
        ELSE IF c0.structure_raw = <<>>
        THEN [exc |-> "PageIndexToolError", ctx |-> c0,
              error |-> "no_structure", metrics |-> <<>>]
        ELSE [exc |-> "none",
              ctx |-> [c4 EXCEPT
                          !.structure_verified = with_list_index(v.validated),
                          !.structure_raw = raw_after_verify(@, npages)],
              error |-> "none",
              metrics |-> [accuracy |-> a.accuracy,
                           total_items |-> Len(v.validated),
                           incorrect_items |-> a.incorrect_items,
                           items_verified |-> Len(v.validated)]]

structure_verifier_tool(data, npages, answers) ==
    LET t == verifier_try(data, npages, answers)
    IN  IF t.exc = "none"
        THEN ToolReturn("structure_verifier", TRUE, t.ctx, ConfVerified,
                        t.metrics, "none")
        ELSE ToolReturn("structure_verifier", FALSE,
                        log_step(t.ctx, "structure_verifier", "failed"),
                        ConfFailed, <<>>, t.error)

----------------------------------------------------------------------------
(* tools/structure_extractor.py: extract_with_toc_pages *)

\* A TOC entry as transform_toc_to_json and convert_page_to_int leave it;
\* the title of entry n is n.
TocEntry(n, page) == [structure |-> <<n>>, title |-> n, page |-> page]

\* The first difference instead of the one counted most often.
most_common_first(differences) == differences[1]

\* Counter(differences).most_common(1)[0][0]: the value counted most often,
\* and among those the one met first.
most_common(differences) ==
    LET Count(v) == Cardinality({i \in 1..Len(differences) :
                                    differences[i] = v})
        first == CHOOSE i \in 1..Len(differences) :
                     /\ \A j \in 1..Len(differences) :
                           Count(differences[j]) <= Count(differences[i])
                     /\ \A j \in 1..(i - 1) :
                           Count(differences[j]) < Count(differences[i])
    IN  differences[first]

\* calculate_page_offset taking the branch "not differences" always.
calculate_page_offset_none(toc_structured, toc_with_physical, start_page_index) ==
    0

\* calculate_page_offset; toc_with_physical[i] is the physical page the
\* oracle gave for the title of entry i, None when it gave none.
calculate_page_offset(toc_structured, toc_with_physical, start_page_index) ==
    LET Usable(i) == /\ toc_structured[i].page # None
                     /\ toc_with_physical[i] # None
                     /\ toc_with_physical[i][1] >= start_page_index
        used == SelectSeq([i \in 1..Len(toc_structured) |-> i], Usable)
        differences == [k \in 1..Len(used) |->
                           toc_with_physical[used[k]][1]
                               - toc_structured[used[k]].page[1]]
    IN  IF differences = <<>> THEN 0 ELSE most_common(differences)

\* apply_page_offset: an entry without a page gets no physical_index.
apply_page_offset(toc_structured, offset) ==
    [i \in 1..Len(toc_structured) |->
        [structure |-> toc_structured[i].structure,
         title |-> toc_structured[i].title,
         physical_index |->
             IF toc_structured[i].page # None
             THEN Some(toc_structured[i].page[1] + offset)
             ELSE None]]

\* extract_with_toc_pages from the structured TOC on: window_start is the
\* physical page on which the sample window begins (start_page_index + 1).
extract_with_toc_pages(toc_structured, toc_with_physical, window_start) ==
    apply_page_offset(toc_structured,
        calculate_page_offset(toc_structured, toc_with_physical,
                              window_start))

----------------------------------------------------------------------------
(* tools/structure_processor.py: structure_processor_tool *)

Steps(tool, statuses) ==
    [i \in 1..Len(statuses) |-> Event(tool, statuses[i])]

log_events(ctx, events) ==
    [ctx EXCEPT !.processing_log = @ \o events,
                !.current_step =
                    IF events = <<>> THEN @
                    ELSE <<events[Len(events)].tool,
                           events[Len(events)].status>>]

\* The steps that apply_enhancements logs for the requested enhancements.
enhancement_steps(enhancements) ==
    (IF "node_ids" \in enhancements
     THEN Steps("structure_processor", <<"adding_node_ids">>) ELSE <<>>)
    \o (IF "node_text" \in enhancements
        THEN Steps("structure_processor", <<"adding_node_text">>) ELSE <<>>)
    \o (IF "summaries" \in enhancements
        THEN Steps("structure_processor", <<"generating_summaries">>)
        ELSE <<>>)

\* The names the tool schema allows in the enhancements argument.
EnhancementNames == {"node_ids", "summaries", "doc_description", "node_text"}

\* The enhancements structure_processor_tool works with (lines 72-82): the
\* given list, or for None the names appended for the flags that are "yes".
determine_enhancements(enhancements, processor_config) ==
    IF enhancements # None THEN enhancements[1]
    ELSE (IF processor_config.if_add_node_id = "yes"
          THEN {"node_ids"} ELSE {})
         \cup (IF processor_config.if_add_node_summary = "yes"
               THEN {"summaries"} ELSE {})
         \cup (IF processor_config.if_add_node_text = "yes"
               THEN {"full_text"} ELSE {})
         \cup (IF processor_config.if_add_doc_description = "yes"
               THEN {"context"} ELSE {})

\* The fields that apply_enhancements and lines 115-117 add: node_id on
\* every node, text on the nodes with a page range inside the document
\* (removed again when only the summaries asked for it), summary on the
\* nodes the summaries were made for, doc_description on the result.
enhanced_fields(enhancements) ==
    (IF "node_ids" \in enhancements THEN {"node_id"} ELSE {})
    \cup (IF "node_text" \in enhancements THEN {"text"} ELSE {})
    \cup (IF "summaries" \in enhancements THEN {"summary"} ELSE {})
    \cup (IF "doc_description" \in enhancements
          THEN {"doc_description"} ELSE {})

\* The try block of structure_processor_tool (lines 46-144) for page lists
\* without a node over the size limits; enh_raised says that an enhancement
\* step raised (the summaries ask the oracle).
processor_try(data, npages, enhancements, starts, enh_raised) ==
    LET c0 == log_events(from_dict(data),
                  Steps("structure_processor", <<"started", "loading_data">>))
        with_preface == add_preface_if_needed(c0.structure_verified)
        t == assemble(c0.structure_verified, npages, starts)
        n == Len(t.node)
        c1 == log_events(c0,
                  Steps("structure_processor",
                        <<"loading_config", "determining_enhancements",
                          "adding_preface">>)
                  \o Steps("add_preface_if_needed",
                           IF Len(with_preface) > Len(c0.structure_verified)
                           THEN <<"checking_preface", "adding_preface_node">>
                           ELSE <<"checking_preface">>)
                  \o Steps("structure_processor",
                           <<"checking_section_starts", "building_tree">>)
                  \o Steps("build_tree_structure", <<"starting_build">>)
                  \o [i \in 1..n |->
                         Event("build_tree_structure", "processing_item")]
                  \o Steps("structure_processor", <<"processing_large_nodes">>)
                  \o [i \in 1..n |->
                         Event("process_large_nodes", "processing_node")]
                  \o Steps("apply_enhancements",
                           <<"starting_enhancements", "starting_enhancements">>))
        c2 == log_events(c1,
                  enhancement_steps(enhancements)
                  \o Steps("structure_processor", <<"building_final_result">>)
                  \o (IF "doc_description" \in enhancements
                      THEN Steps("structure_processor",
                                 <<"generating_doc_description">>)
                      ELSE <<>>)
                  \o Steps("structure_processor", <<"completed">>))
    IN  IF c0.structure_verified = <<>>
        THEN [exc |-> "PageIndexToolError", ctx |-> c0,
              error |-> "no_verified_structure", metrics |-> <<>>]
        ELSE IF enh_raised
        THEN [exc |-> "Exception", ctx |-> c1, error |-> "unexpected",
              metrics |-> <<>>]
        ELSE [exc |-> "none",
              ctx |-> [c2 EXCEPT !.structure_final =
                          Some([fields |-> enhanced_fields(enhancements)]
                               @@ t)],
              error |-> "none",
              metrics |-> [final_nodes |-> n,
                           enhancements_applied |->
                               Cardinality(enhancements)]]

\* The single except clause (lines 146-164) logs the failure, saves the
\* checkpoint and returns.
structure_processor_tool(data, npages, enhancements, starts, enh_raised) ==
    LET t == processor_try(data, npages, enhancements, starts, enh_raised)
    IN  IF t.exc = "none"
        THEN ToolReturn("structure_processor", TRUE, t.ctx, ConfProcessed,
                        t.metrics, "none")
        ELSE ToolReturn("structure_processor", FALSE,
                        log_step(t.ctx, "structure_processor", "failed"),
                        ConfFailed, <<>>, t.error)

----------------------------------------------------------------------------
(* core/llm_batch_utils.py: LLMBatcher *)

BatchResult(id, text, error) ==
    [id |-> id, result |-> text, error |-> error]

\* The loop of _split_items_by_token_limit from item i on; item_tokens[i] is
\* the token count of the prompt part of item i and an item is named by its
\* position.
RECURSIVE split_loop(_, _, _, _, _)
split_loop(item_tokens, base_tokens, limit, i, st) ==
    IF i > Len(item_tokens) THEN st
    ELSE IF st.current_tokens + item_tokens[i] > limit
              /\ st.current_batch # <<>>
    THEN split_loop(item_tokens, base_tokens, limit, i + 1,
             [batches |-> Append(st.batches, st.current_batch),
              current_batch |-> <<i>>,
              current_tokens |-> base_tokens + item_tokens[i]])
    ELSE split_loop(item_tokens, base_tokens, limit, i + 1,
             [batches |-> st.batches,
              current_batch |-> Append(st.current_batch, i),
              current_tokens |-> st.current_tokens + item_tokens[i]])

\* _split_items_by_token_limit that never starts a new batch.
split_items_by_token_limit_one_batch(item_tokens, base_tokens, limit) ==
    IF item_tokens = <<>> THEN <<>>
    ELSE <<[i \in 1..Len(item_tokens) |-> i]>>

split_items_by_token_limit(item_tokens, base_tokens, limit) ==
    IF item_tokens = <<>> THEN <<>>
    ELSE LET st == split_loop(item_tokens, base_tokens, limit, 1,
                       [batches |-> <<>>, current_batch |-> <<>>,
                        current_tokens |-> base_tokens])
         IN  IF st.current_batch # <<>>
             THEN Append(st.batches, st.current_batch)
             ELSE st.batches

\* The error results that an exception gives to every item of a batch.
error_results(batch, error) ==
    [k \in 1..Len(batch) |-> BatchResult(batch[k], "", error)]

\* _parse_extraction_batch_response: answer[i] is what the response holds
\* for item i: "found" a result, "empty" the result {}, "missing" no entry
\* with its id; an id without entry is looked up with the default {}.
parse_extraction_batch_response(batch, answer, parses) ==
    IF ~parses THEN error_results(batch, "parse_error")
    ELSE [k \in 1..Len(batch) |->
             BatchResult(batch[k],
                 IF answer[batch[k]] = "found" THEN "result" ELSE "{}",
                 "none")]

RECURSIVE flatten_results(_)
flatten_results(lists) ==
    IF lists = <<>> THEN <<>>
    ELSE Head(lists) \o flatten_results(Tail(lists))

\* batch_toc_operations: call[b] is the outcome of the request for batch b.
batch_toc_operations(item_tokens, base_tokens, limit, answer, call) ==
    LET batches == split_items_by_token_limit(item_tokens, base_tokens,
                                              limit)
    IN  flatten_results(
            [b \in 1..Len(batches) |->
                IF call[b] = "call_error"
                THEN error_results(batches[b], "call_error")
                ELSE parse_extraction_batch_response(batches[b], answer,
                         call[b] = "ok")])

----------------------------------------------------------------------------
(* tools/pdf_parser.py and tools/toc_detector.py *)

\* pdf_parser_tool: exists says whether the file is there and can be
\* parsed.  A failure is logged and checkpointed like everywhere else, but
\* then raised to the caller instead of returned (line 88).
pdf_parser_tool(data, exists, npages) ==
    LET c0 == log_step(from_dict(data), "pdf_parser", "started")
    IN  IF exists
        THEN ToolReturn("pdf_parser", TRUE,
                        log_step(c0, "pdf_parser", "completed"), ConfParsed,
                        [total_pages |-> npages], "none")
        ELSE [result |-> ToolRaise("pdf_parser", "parse_failed").result,
              checkpoint |->
                  save_checkpoint(log_step(c0, "pdf_parser", "failed"))]

\* The try block of toc_detector_tool (lines 19-85): toc_info is what the
\* oracle finds, raised says that asking it raised.
toc_detector_try(data, npages, toc_info, raised) ==
    LET c0 == log_step(from_dict(data), "toc_detector", "started")
        c1 == log_step(c0, "toc_detector", "searching_toc_pages")
        c2 == IF toc_info.found
              THEN log_step(c1, "toc_detector", "extracting_toc_content")
              ELSE c1
        c3 == log_step([c2 EXCEPT !.toc_info = toc_info],
                       "toc_detector", "completed")
    IN  IF npages = 0
        THEN Raised("PageIndexToolError", c0, "none", "no_pages")
        ELSE IF raised
        THEN Raised("Exception", c1, "none", "unexpected")
        ELSE Returned(c3, "none",
                      IF toc_info.found THEN ConfTocFound ELSE ConfTocAbsent)

\* The return and the except clause (lines 72-110).
toc_detector_tool(data, npages, toc_info, raised) ==
    LET t == toc_detector_try(data, npages, toc_info, raised)
    IN  IF t.exc = "none"
        THEN ToolReturn("toc_detector", TRUE, t.ctx, t.confidence,
                        [toc_found |-> t.ctx.toc_info.found], "none")
        ELSE ToolReturn("toc_detector", FALSE,
                        log_step(t.ctx, "toc_detector", "failed"),
                        ConfFailed, <<>>, t.error)

----------------------------------------------------------------------------
(* agent/pageindex_agent.py: process_pdf *)

\* The while loop runs at most max_iterations rounds (20 in the source,
\* MaxRounds here).
max_iterations == MaxRounds

\* The except clauses of process_pdf with the outer one (lines 148-158)
\* logging nothing.
process_pdf_failed_inner_only(ctx, in_tool_call) ==
    IF in_tool_call THEN log_step(ctx, "agent", "tool_failed") ELSE ctx

\* The context that the except clauses of process_pdf log into and save: a
\* failure of a tool call passes the inner clause (lines 111-134) and then,
\* as the PageIndexError it raises, the outer one (lines 148-158); every
\* other failure passes the outer one only.
process_pdf_failed(ctx, in_tool_call) ==
    log_step(IF in_tool_call THEN log_step(ctx, "agent", "tool_failed")
             ELSE ctx,
             "agent", "failed")

\* The tool messages that a call adds to the conversation (lines 98-102
\* and 119-123).
tool_messages(r) ==
    LET m(content) == [tool |-> r.result.tool, content |-> content]
    IN  IF r.result.raised THEN <<m("error")>>
        ELSE IF r.result.success THEN <<m("success")>>
        ELSE <<m("failure"), m("error")>>

----------------------------------------------------------------------------
(* tools/structure_extractor.py: matching a TOC without page numbers *)

\* A TOC entry while it is matched: physical_index is None as long as the
\* entry has no (non-empty) physical_index.
MatchEntry(title, physical_index) ==
    [title |-> title, physical_index |-> physical_index]

\* match_toc_to_content: the answer of the oracle, read by extract_json,
\* is returned as the new list; the list handed in comes back only when
\* the request raised.  An answer that is no JSON reads as empty.
match_toc_to_content(toc_items, answer) ==
    IF answer.raised THEN toc_items ELSE answer.items

\* The merge of one parsed batch result (lines 551-564): an item of the
\* result gives its physical_index to the first entry of the same title,
\* if that entry has none yet.
RECURSIVE merge_chunk_result(_, _)
merge_chunk_result(final_toc, chunk_result) ==
    IF chunk_result = <<>> THEN final_toc
    ELSE LET updated_item == Head(chunk_result)
             same == {j \in 1..Len(final_toc) :
                         final_toc[j].title = updated_item.title}
         IN  IF same = {} THEN merge_chunk_result(final_toc,
                                                  Tail(chunk_result))
             ELSE LET j == CHOOSE j \in same : \A h \in same : j <= h
                  IN  IF updated_item.physical_index # None
                            /\ final_toc[j].physical_index = None
                      THEN merge_chunk_result(
                               [final_toc EXCEPT ![j].physical_index =
                                    updated_item.physical_index],
                               Tail(chunk_result))
                      ELSE merge_chunk_result(final_toc, Tail(chunk_result))

\* What batch_match_toc_to_content does with the result of one chunk
\* (lines 540-582): a result without error that parses as a list is
\* merged, any other sends the chunk to match_toc_to_content.
process_batch_result(final_toc, batch_result, answer) ==
    IF ~batch_result.error /\ batch_result.is_list
    THEN merge_chunk_result(final_toc, batch_result.items)
    ELSE match_toc_to_content(final_toc, answer)

----------------------------------------------------------------------------
(* tools/structure_extractor.py: extraction without a TOC *)

\* json.dumps(existing_structure[-3:] ...): the part of the structure that
\* the prompt of generate_additional_structure shows.
existing_structure_shown(structure) ==
    IF structure.is_list THEN LastN(structure.items, 3) ELSE <<>>

\* What extract_json makes of an answer: the list it holds, or the empty
\* dictionary when the answer is no JSON.
parsed_answer(answer) ==
    IF answer.kind = "list" THEN [is_list |-> TRUE, items |-> answer.items]
    ELSE [is_list |-> FALSE, items |-> <<>>]

\* generate_structure_from_content and generate_additional_structure
\* return the parsed answer, or [] when the request raised.
generated_structure(answer) ==
    IF answer.kind = "raised" THEN [is_list |-> TRUE, items |-> <<>>]
    ELSE parsed_answer(answer)

\* structure.extend(additional_structure) inside the try of lines 652-658:
\* extending something that is no list raises and the chunk is skipped.
extend_structure(structure, additional) ==
    IF structure.is_list
    THEN [is_list |-> TRUE, items |-> structure.items \o additional.items]
    ELSE structure

----------------------------------------------------------------------------
(* Reading an assembled tree *)

RECURSIVE flatten_nodes(_, _)
flatten_nodes(kids, ids) ==
    IF ids = <<>> THEN <<>>
    ELSE <<Head(ids)>> \o flatten_nodes(kids, kids[Head(ids)])
                       \o flatten_nodes(kids, Tail(ids))

\* Positions of the nodes of the tree, in depth-first order.
TreeNodes(t) == flatten_nodes(t.kids, t.root_nodes)

SeqToSet(s) == {s[i] : i \in 1..Len(s)}

\* The sibling lists of a tree: the roots and every child list.
SiblingLists(t) == {t.root_nodes} \cup {t.kids[k] : k \in DOMAIN t.kids}

EmptyTree == [root_nodes |-> <<>>, kids |-> <<>>, node |-> <<>>]

----------------------------------------------------------------------------
(* The tree assembler as a state machine *)

TreeStart(pc) ==
    /\ items = <<>>
    /\ total_pages = MaxPage
    /\ tree = EmptyTree
    /\ tree_pc = pc

ChunkStart(pc) ==
    /\ token_lengths = <<>>
    /\ subsets = <<>>
    /\ chunk_pc = pc

ToolStart(pc) ==
    /\ checkpoint = NoCheckpoint
    /\ request = [n |-> 0]
    /\ result = [tool |-> "none"]
    /\ tool_pc = pc

ChunkOff == ChunkStart("off") /\ max_tokens = 1 /\ overlap_page = 1

ToolOff == ToolStart("off") /\ context = NewContext /\ pages = 0

TreeInit ==
    /\ TreeStart("input")
    /\ ChunkOff
    /\ ToolOff

\* The appear_start that check_section_starts can give to an item: "unknown"
\* when the item has no page of the document, else "yes" or "no" by whether
\* the title is found at the top of the page.
AppearValues(p) ==
    IF p = None \/ ~(0 < p[1] /\ p[1] <= MaxPage)
    THEN {"unknown"} ELSE {"yes", "no"}

\* The caller appends one more item to the flat list.
AddItem ==
    /\ tree_pc = "input"
    /\ Len(items) < MaxItems
    /\ \E s \in StructureValues, p \in PhysicalValues :
       \E a \in AppearValues(p) :
          /\ items' = Append(items,
                 [title |-> Len(items) + 1, structure |-> s,
                  physical_index |-> p, appear_start |-> a])
    /\ UNCHANGED <<total_pages, tree, tree_pc>>
    /\ UNCHANGED <<chunk_vars, tool_vars>>

BuildTree ==
    /\ tree_pc = "input"
    /\ tree' = build_tree_structure(items, total_pages)
    /\ tree_pc' = "done"
    /\ UNCHANGED <<items, total_pages>>
    /\ UNCHANGED <<chunk_vars, tool_vars>>

TreeNext == AddItem \/ BuildTree

SpecTree == TreeInit /\ [][TreeNext]_vars

----------------------------------------------------------------------------
(* The chunker as a state machine *)

ChunkInit ==
    /\ ChunkStart("input")
    /\ max_tokens \in 1..MaxBudget
    /\ overlap_page \in 1..MaxOverlap
    /\ TreeStart("off")
    /\ ToolOff

\* One more page, with its token count, is added to the page list.
AddPage ==
    /\ chunk_pc = "input"
    /\ Len(token_lengths) < MaxChunkPages
    /\ \E t \in 0..MaxPageTokens : token_lengths' = Append(token_lengths, t)
    /\ UNCHANGED <<max_tokens, overlap_page, subsets, chunk_pc>>
    /\ UNCHANGED <<tree_vars, tool_vars>>

\* The extractor groups the pages of a non-empty document.
GroupPages ==
    /\ chunk_pc = "input"
    /\ Len(token_lengths) >= 1
    /\ subsets' = page_list_to_group_text(token_lengths, max_tokens,
                                          overlap_page)
    /\ chunk_pc' = "done"
    /\ UNCHANGED <<token_lengths, max_tokens, overlap_page>>
    /\ UNCHANGED <<tree_vars, tool_vars>>

ChunkNext == AddPage \/ GroupPages

SpecChunk == ChunkInit /\ [][ChunkNext]_vars

----------------------------------------------------------------------------
(* The extractor tool as a state machine *)

\* The toc_info that toc_detector_tool leaves in the context.
TocInfos ==
    {[found |-> FALSE, has_page_numbers |-> FALSE],
     [found |-> TRUE, has_page_numbers |-> FALSE],
     [found |-> TRUE, has_page_numbers |-> TRUE]}

ExtractInit ==
    /\ \E ti \in TocInfos : context = [NewContext EXCEPT !.toc_info = ti]
    /\ pages \in {0, MaxPage}
    /\ ToolStart("ready")
    /\ TreeStart("off")
    /\ ChunkOff

\* The caller hands its serialised context to the tool and, as process_pdf
\* does, takes over the returned context when the tool reports success; it
\* stops calling after a failure.
AfterCall(r) ==
    /\ result' = r.result
    /\ checkpoint' = IF r.result.raised THEN checkpoint ELSE r.checkpoint
    /\ context' = IF ~r.result.raised /\ r.result.success
                  THEN from_dict(r.result.context) ELSE context
    /\ tool_pc' = IF ~r.result.raised /\ r.result.success
                  THEN "ready" ELSE "failed"

CallStructureExtractor ==
    /\ tool_pc = "ready"
    /\ request.n < MaxCalls
    /\ \E strategy \in Strategies :
       \E toc_run \in TocRuns(strategy), no_toc_run \in NoTocRuns :
          /\ request' = [n |-> request.n + 1, strategy |-> strategy,
                         toc_info |-> context.toc_info,
                         toc_run |-> toc_run, no_toc_run |-> no_toc_run]
          /\ AfterCall(structure_extractor_tool(to_dict(context), pages,
                           strategy, toc_run, no_toc_run))
    /\ UNCHANGED pages
    /\ UNCHANGED <<tree_vars, chunk_vars>>

ExtractNext == CallStructureExtractor

SpecExtract == ExtractInit /\ [][ExtractNext]_vars

----------------------------------------------------------------------------
(* The verifier tool as a state machine *)

VerifyInit ==
    /\ context = NewContext
    /\ pages \in 0..MaxPage
    /\ ToolStart("input")
    /\ TreeStart("off")
    /\ ChunkOff

\* The extraction stage left one more item in structure_raw; the oracle may
\* have put it on any page, also past the end of the document.
ExtractedRawItem ==
    /\ tool_pc = "input"
    /\ Len(context.structure_raw) < MaxItems
    /\ \E p \in PhysicalValues \cup {Some(MaxPage + 1)} :
          context' = [context EXCEPT !.structure_raw = Append(@,
              [title |-> Len(context.structure_raw) + 1,
               structure |-> <<Len(context.structure_raw) + 1>>,
               physical_index |-> p])]
    /\ UNCHANGED <<pages, checkpoint, request, result, tool_pc>>
    /\ UNCHANGED <<tree_vars, chunk_vars>>

CallStructureVerifier ==
    /\ tool_pc \in {"input", "ready"}
    /\ request.n < MaxCalls
    /\ \E answers \in [1..Len(context.structure_raw) -> {"yes", "no"}] :
          /\ request' = [n |-> request.n + 1,
                         structure_raw |-> context.structure_raw,
                         answers |-> answers]
          /\ AfterCall(structure_verifier_tool(to_dict(context), pages,
                                               answers))
    /\ UNCHANGED pages
    /\ UNCHANGED <<tree_vars, chunk_vars>>

VerifyNext == ExtractedRawItem \/ CallStructureVerifier

SpecVerify == VerifyInit /\ [][VerifyNext]_vars

----------------------------------------------------------------------------
(* The structure processor on a verified list, as a state machine *)

ProcessInit ==
    /\ TreeStart("verified")
    /\ ChunkOff
    /\ ToolOff

\* The verifier left one more item in structure_verified; its page, when it
\* has one, is a page of the document.
AddVerifiedItem ==
    /\ tree_pc = "verified"
    /\ Len(items) < MaxItems
    /\ \E st \in StructureValues, p \in PhysicalValues :
          items' = Append(items,
              [title |-> Len(items) + 1, structure |-> st,
               physical_index |-> p])
    /\ UNCHANGED <<total_pages, tree, tree_pc>>
    /\ UNCHANGED <<chunk_vars, tool_vars>>

\* add_preface_if_needed is applied to the list.
AddPrefaceIfNeeded ==
    /\ tree_pc = "verified"
    /\ result' = [tool |-> "add_preface_if_needed",
                  structure |-> add_preface_if_needed(items)]
    /\ tree_pc' = "preface"
    /\ UNCHANGED <<items, total_pages, tree>>
    /\ UNCHANGED <<context, pages, checkpoint, request, tool_pc>>
    /\ UNCHANGED chunk_vars

\* structure_processor_tool assembles the tree of a non-empty list.
AssembleTree ==
    /\ tree_pc = "verified"
    /\ items # <<>>
    /\ \E starts \in [1..(Len(items) + 1) -> {"yes", "no"}] :
          tree' = assemble(items, total_pages, starts)
    /\ tree_pc' = "processed"
    /\ UNCHANGED <<items, total_pages>>
    /\ UNCHANGED <<chunk_vars, tool_vars>>

ProcessNext == AddVerifiedItem \/ AddPrefaceIfNeeded \/ AssembleTree

SpecProcess == ProcessInit /\ [][ProcessNext]_vars

----------------------------------------------------------------------------
(* The three structure stages on a document with a paged TOC *)

\* The page a TOC entry claims and the physical page the oracle gives for
\* its title.
ClaimedPages == {None, <<1>>, <<5>>}

OraclePages == {None, <<4>>, <<8>>}

\* First physical page of the sample window: page 1 when toc_info names no
\* TOC page, else the page after the last TOC page.
WindowStarts == {1, 5}

TocPagesInit ==
    /\ context = [NewContext EXCEPT
                     !.toc_info = [found |-> TRUE, has_page_numbers |-> TRUE]]
    /\ pages \in {10, MaxCorpusPages}
    /\ ToolStart("ready")
    /\ TreeStart("off")
    /\ ChunkOff

ExtractTocWithPages ==
    /\ tool_pc = "ready"
    /\ request.n = 0
    /\ \E k \in 1..MaxTocItems :
       \E claimed \in [1..k -> ClaimedPages],
          physical \in [1..k -> OraclePages],
          w \in WindowStarts :
          LET toc == [i \in 1..k |-> TocEntry(i, claimed[i])]
          IN  /\ request' = [n |-> 1, toc_structured |-> toc,
                             toc_with_physical |-> physical,
                             window_start |-> w]
              /\ AfterCall(structure_extractor_tool(to_dict(context), pages,
                     "toc_with_pages",
                     Run(<<"transforming_toc", "matching_physical_indices">>,
                         FALSE, extract_with_toc_pages(toc, physical, w)),
                     Run(<<"analyzing_content_structure">>, TRUE, <<>>)))
    /\ UNCHANGED pages
    /\ UNCHANGED <<tree_vars, chunk_vars>>

VerifyTocStructure ==
    /\ tool_pc = "ready"
    /\ result.tool = "structure_extractor"
    /\ \E answers \in [1..Len(context.structure_raw) -> {"yes", "no"}] :
          AfterCall(structure_verifier_tool(to_dict(context), pages,
                                            answers))
    /\ UNCHANGED <<pages, request>>
    /\ UNCHANGED <<tree_vars, chunk_vars>>

ProcessTocStructure ==
    /\ tool_pc = "ready"
    /\ result.tool = "structure_verifier"
    /\ \E starts \in [1..(Len(context.structure_verified) + 1) ->
                          {"yes", "no"}],
          enh_raised \in BOOLEAN :
          AfterCall(structure_processor_tool(to_dict(context), pages, {},
                                             starts, enh_raised))
    /\ UNCHANGED <<pages, request>>
    /\ UNCHANGED <<tree_vars, chunk_vars>>

TocPagesNext ==
    ExtractTocWithPages \/ VerifyTocStructure \/ ProcessTocStructure

SpecTocPages == TocPagesInit /\ [][TocPagesNext]_vars

----------------------------------------------------------------------------
(* The batcher as a state machine *)

BatchInit ==
    /\ tool_pc = "batching"
    /\ \E limit \in 1..MaxBatchTokens :
          request = [n |-> 0, item_tokens |-> <<>>, max_tokens |-> limit,
                     base_tokens |-> 1]
    /\ result = [tool |-> "none"]
    /\ checkpoint = NoCheckpoint
    /\ context = NewContext
    /\ pages = 0
    /\ TreeStart("off")
    /\ ChunkOff

\* The caller adds one more item to the batch request.
AddBatchItem ==
    /\ tool_pc = "batching"
    /\ Len(request.item_tokens) < MaxBatchItems
    /\ \E t \in 1..MaxItemTokens :
          request' = [request EXCEPT !.item_tokens = Append(@, t)]
    /\ UNCHANGED <<context, pages, checkpoint, result, tool_pc>>
    /\ UNCHANGED <<tree_vars, chunk_vars>>

BatchTocOperations ==
    /\ tool_pc = "batching"
    /\ LET batches == split_items_by_token_limit(request.item_tokens,
                          request.base_tokens, request.max_tokens)
       IN  \E answer \in [1..Len(request.item_tokens) ->
                              {"found", "empty", "missing"}],
              call \in [1..Len(batches) ->
                            {"ok", "call_error", "parse_error"}] :
              /\ request' = [request EXCEPT !.n = 1]
              /\ result' = [tool |-> "batch_toc_operations",
                            batches |-> batches,
                            answer |-> answer, call |-> call,
                            results |-> batch_toc_operations(
                                request.item_tokens, request.base_tokens,
                                request.max_tokens, answer, call)]
    /\ tool_pc' = "batched"
    /\ UNCHANGED <<context, pages, checkpoint>>
    /\ UNCHANGED <<tree_vars, chunk_vars>>

BatchNext == AddBatchItem \/ BatchTocOperations

SpecBatch == BatchInit /\ [][BatchNext]_vars

----------------------------------------------------------------------------
(* process_pdf as a state machine: the agent calls the tools in any order *)

AgentInit ==
    /\ context = NewContext
    /\ pages = 0
    /\ checkpoint = NoCheckpoint
    /\ request = [n |-> 0, messages |-> <<>>]
    /\ result = [tool |-> "none"]
    /\ tool_pc = "running"
    /\ TreeStart("off")
    /\ ChunkOff

\* process_pdf leaves through its except clauses: the context is logged
\* into and saved, then the error goes to the caller.
ProcessPdfRaises(in_tool_call) ==
    /\ context' = process_pdf_failed(context, in_tool_call)
    /\ checkpoint' = save_checkpoint(process_pdf_failed(context, in_tool_call))
    /\ tool_pc' = "raised"

\* One round of the loop in which the agent asks for one tool call (lines
\* 56-134): the tool gets the serialised context; process_pdf takes over
\* the returned context on success and leaves on anything else.
ToolCalled(r) ==
    /\ tool_pc = "running"
    /\ request.n < max_iterations
    /\ request' = [n |-> request.n + 1,
                   messages |-> request.messages \o tool_messages(r)]
    /\ result' = r.result
    /\ IF ~r.result.raised /\ r.result.success
       THEN /\ context' = from_dict(r.result.context)
            /\ checkpoint' = r.checkpoint
            /\ tool_pc' = "running"
       ELSE ProcessPdfRaises(TRUE)
    /\ UNCHANGED <<tree_vars, chunk_vars>>

\* The extraction runs that log their two ordinary steps and return at most
\* one item, or raise.
ShortRuns(runs) ==
    {r \in runs : Len(r.events) \in {0, 2} /\ Len(r.items) <= 1}

ParsePdf ==
    \E exists \in BOOLEAN :
       /\ ToolCalled(pdf_parser_tool(to_dict(context), exists, MaxPage))
       /\ pages' = IF exists THEN MaxPage ELSE pages

DetectToc ==
    /\ \E toc_info \in TocInfos, raised \in BOOLEAN :
          ToolCalled(toc_detector_tool(to_dict(context), pages, toc_info,
                                       raised))
    /\ UNCHANGED pages

ExtractStructure ==
    /\ \E strategy \in Strategies :
       \E toc_run \in ShortRuns(TocRuns(strategy)),
          no_toc_run \in ShortRuns(NoTocRuns) :
          ToolCalled(structure_extractor_tool(to_dict(context), pages,
                         strategy, toc_run, no_toc_run))
    /\ UNCHANGED pages

VerifyStructure ==
    /\ \E answers \in [1..Len(context.structure_raw) -> {"yes", "no"}] :
          ToolCalled(structure_verifier_tool(to_dict(context), pages,
                                             answers))
    /\ UNCHANGED pages

ProcessStructure ==
    /\ \E starts \in [1..(Len(context.structure_verified) + 1) ->
                          {"yes", "no"}],
          enh_raised \in BOOLEAN :
          ToolCalled(structure_processor_tool(to_dict(context), pages,
                         {"summaries"}, starts, enh_raised))
    /\ UNCHANGED pages

\* A round in which the agent asks for no tool call ends the loop (lines
\* 135-147): the final structure is returned unless that round was the
\* last one allowed or there is no final structure.
AgentFinishes ==
    /\ tool_pc = "running"
    /\ request.n < max_iterations
    /\ request' = [request EXCEPT !.n = @ + 1]
    /\ IF request.n + 1 >= max_iterations
       THEN /\ ProcessPdfRaises(FALSE)
            /\ result' = [tool |-> "process_pdf", raised |-> TRUE,
                          stopped |-> TRUE,
                          error |-> "max_iterations"]
       ELSE IF context.structure_final # None
       THEN /\ result' = [tool |-> "process_pdf", raised |-> FALSE,
                          stopped |-> TRUE,
                          error |-> "none"]
            /\ tool_pc' = "returned"
            /\ UNCHANGED <<context, checkpoint>>
       ELSE /\ ProcessPdfRaises(FALSE)
            /\ result' = [tool |-> "process_pdf", raised |-> TRUE,
                          stopped |-> TRUE,
                          error |-> "no_final_structure"]
    /\ UNCHANGED pages
    /\ UNCHANGED <<tree_vars, chunk_vars>>

\* Asking the agent for its next step raises (line 59): only the outer
\* except clause sees it.
ClientRaises ==
    /\ tool_pc = "running"
    /\ request.n < max_iterations
    /\ request' = [request EXCEPT !.n = @ + 1]
    /\ ProcessPdfRaises(FALSE)
    /\ result' = [tool |-> "process_pdf", raised |-> TRUE,
                  stopped |-> FALSE,
                  error |-> "client"]
    /\ UNCHANGED pages
    /\ UNCHANGED <<tree_vars, chunk_vars>>

\* The loop ran all its rounds (lines 139-140).
IterationsExhausted ==
    /\ tool_pc = "running"
    /\ request.n >= max_iterations
    /\ ProcessPdfRaises(FALSE)
    /\ result' = [tool |-> "process_pdf", raised |-> TRUE,
                  stopped |-> FALSE,
                  error |-> "max_iterations"]
    /\ UNCHANGED <<pages, request>>
    /\ UNCHANGED <<tree_vars, chunk_vars>>

AgentNext ==
    \/ ParsePdf
    \/ DetectToc
    \/ ExtractStructure
    \/ VerifyStructure
    \/ ProcessStructure
    \/ AgentFinishes
    \/ ClientRaises
    \/ IterationsExhausted

SpecAgent == AgentInit /\ [][AgentNext]_vars

----------------------------------------------------------------------------
(* calculate_page_offset on its own *)

\* Page numbers a TOC entry claims, and physical pages the oracle finds
\* its title on.
OffsetClaimedPages == {None, <<1>>, <<2>>}

OffsetObservedPages == {None, <<2>>, <<3>>, <<4>>}

OffsetWindowStarts == {1, 3}

OffsetInit ==
    /\ context = NewContext
    /\ pages = 0
    /\ checkpoint = NoCheckpoint
    /\ request = [n |-> 0, toc_structured |-> <<>>,
                  toc_with_physical |-> <<>>, window_start |-> 1]
    /\ result = [tool |-> "none"]
    /\ tool_pc = "toc"
    /\ TreeStart("off")
    /\ ChunkOff

AddTocEntry ==
    /\ tool_pc = "toc"
    /\ Len(request.toc_structured) < MaxOffsetItems
    /\ \E claimed \in OffsetClaimedPages, observed \in OffsetObservedPages :
          request' = [request EXCEPT
              !.toc_structured =
                  Append(@, TocEntry(Len(request.toc_structured) + 1,
                                     claimed)),
              !.toc_with_physical = Append(@, observed)]
    /\ UNCHANGED <<context, pages, checkpoint, result, tool_pc>>
    /\ UNCHANGED <<tree_vars, chunk_vars>>

CalculatePageOffset ==
    /\ tool_pc = "toc"
    /\ \E w \in OffsetWindowStarts :
          /\ request' = [request EXCEPT !.n = 1, !.window_start = w]
          /\ result' = [tool |-> "calculate_page_offset",
                        offset |-> calculate_page_offset(
                                       request.toc_structured,
                                       request.toc_with_physical, w)]
    /\ tool_pc' = "offset"
    /\ UNCHANGED <<context, pages, checkpoint>>
    /\ UNCHANGED <<tree_vars, chunk_vars>>

OffsetNext == AddTocEntry \/ CalculatePageOffset

SpecOffset == OffsetInit /\ [][OffsetNext]_vars

----------------------------------------------------------------------------
(* list_to_tree on its own *)

\* Structure indices up to three components deep.
NestStructureValues == {None, <<1>>, <<2>>, <<1, 1>>, <<1, 1, 1>>}

NestInit ==
    /\ TreeStart("flat")
    /\ ChunkOff
    /\ ToolOff

AddFlatItem ==
    /\ tree_pc = "flat"
    /\ Len(items) < MaxNestItems
    /\ \E s \in NestStructureValues :
          items' = Append(items,
              [title |-> Len(items) + 1, structure |-> s,
               start_index |-> None, end_index |-> None])
    /\ UNCHANGED <<total_pages, tree, tree_pc>>
    /\ UNCHANGED <<chunk_vars, tool_vars>>

ListToTree ==
    /\ tree_pc = "flat"
    /\ tree' = list_to_tree(items)
    /\ tree_pc' = "nested"
    /\ UNCHANGED <<items, total_pages>>
    /\ UNCHANGED <<chunk_vars, tool_vars>>

NestNext == AddFlatItem \/ ListToTree

SpecNest == NestInit /\ [][NestNext]_vars

----------------------------------------------------------------------------
(* Matching a TOC without page numbers, chunk by chunk *)

MatchTitles == {1, 2}

\* The lists the oracle can answer with: any entries, in any order, with
\* or without a page.
MatchLists ==
    UNION {[1..k -> {MatchEntry(t, p) :
                        t \in MatchTitles,
                        p \in {None} \cup {Some(c) : c \in 1..MaxChunks}}] :
           k \in 0..2}

MatchInit ==
    /\ \E k \in 1..2, path \in {"batch", "individual"} :
          request = [n |-> 0, path |-> path,
                     toc_items |-> [i \in 1..k |-> MatchEntry(i, None)]]
    /\ result = [tool |-> "none"]
    /\ tool_pc = "matching"
    /\ context = NewContext
    /\ pages = 0
    /\ checkpoint = NoCheckpoint
    /\ TreeStart("off")
    /\ ChunkOff

\* batch_match_toc_to_content takes the result of the next chunk.
ProcessBatchResult ==
    /\ tool_pc = "matching"
    /\ request.path = "batch"
    /\ request.n < MaxChunks
    /\ \E error \in BOOLEAN, is_list \in BOOLEAN :
       \E parsed \in IF ~error /\ is_list THEN MatchLists ELSE {<<>>},
          raised \in IF ~error /\ is_list THEN {FALSE} ELSE BOOLEAN,
          reply \in IF ~error /\ is_list THEN {<<>>} ELSE MatchLists :
          LET batch_result == [error |-> error, is_list |-> is_list,
                               items |-> parsed]
              answer == [raised |-> raised, items |-> reply]
          IN  /\ request' = [request EXCEPT
                     !.n = @ + 1,
                     !.toc_items = process_batch_result(@, batch_result,
                                                        answer)]
              /\ result' = [tool |-> "batch_match_toc_to_content",
                            merged |-> ~error /\ is_list]
    /\ UNCHANGED <<context, pages, checkpoint, tool_pc>>
    /\ UNCHANGED <<tree_vars, chunk_vars>>

\* The loops over the chunks that call match_toc_to_content directly
\* (lines 264-265, 269-270 and 586-588).
MatchChunk ==
    /\ tool_pc = "matching"
    /\ request.path = "individual"
    /\ request.n < MaxChunks
    /\ \E raised \in BOOLEAN, reply \in MatchLists :
          /\ request' = [request EXCEPT
                 !.n = @ + 1,
                 !.toc_items = match_toc_to_content(@,
                                   [raised |-> raised, items |-> reply])]
          /\ result' = [tool |-> "match_toc_to_content", merged |-> FALSE]
    /\ UNCHANGED <<context, pages, checkpoint, tool_pc>>
    /\ UNCHANGED <<tree_vars, chunk_vars>>

MatchNext == ProcessBatchResult \/ MatchChunk

SpecMatch == MatchInit /\ [][MatchNext]_vars

----------------------------------------------------------------------------
(* Extraction without a TOC, request by request *)

\* The answers of the oracle to the request for chunk c: up to four new
\* sections, text that is no JSON, or a request that raises.
ChunkAnswers(c) ==
    {[kind |-> "list", items |-> [k \in 1..n |-> <<c, k>>]] : n \in 0..4}
    \cup {[kind |-> "not_json", items |-> <<>>],
          [kind |-> "raised", items |-> <<>>]}

\* request.answers are the answers received so far, request.pending the
\* request in flight: its chunk and the structure its prompt shows (None
\* for a prompt without existing structure).
NoTocInit ==
    /\ \E chunks \in 1..MaxChunks :
          request = [n |-> 0, chunks |-> chunks, path |-> "sequential",
                     structure |-> [is_list |-> TRUE, items |-> <<>>],
                     answers |-> <<>>, pending |-> None]
    /\ result = [tool |-> "none"]
    /\ tool_pc = "generating"
    /\ context = NewContext
    /\ pages = 0
    /\ checkpoint = NoCheckpoint
    /\ TreeStart("off")
    /\ ChunkOff

\* The next request is built and sent: generate_structure_from_content
\* for the first chunk and for every chunk of the complete fallback,
\* generate_additional_structure for the later chunks otherwise.
IssueChunkRequest ==
    /\ tool_pc = "generating"
    /\ request.pending = None
    /\ request.n < request.chunks
    /\ request' = [request EXCEPT !.pending =
           Some([chunk |-> request.n + 1,
                 existing_structure |->
                     IF request.n = 0 \/ request.path = "independent"
                     THEN None
                     ELSE Some(existing_structure_shown(
                                   request.structure))])]
    /\ UNCHANGED <<context, pages, checkpoint, result, tool_pc>>
    /\ UNCHANGED <<tree_vars, chunk_vars>>

\* The answer to the request in flight arrives and is added to the
\* structure.
ReceiveChunkAnswer ==
    /\ tool_pc = "generating"
    /\ request.pending # None
    /\ \E answer \in ChunkAnswers(request.pending[1].chunk) :
          /\ request' = [request EXCEPT
                 !.n = @ + 1,
                 !.pending = None,
                 !.answers = Append(@, answer),
                 !.structure =
                     IF request.n = 0 /\ request.path = "sequential"
                     THEN generated_structure(answer)
                     ELSE extend_structure(@, generated_structure(answer))]
          /\ result' = [tool |-> "generate_structure", answer |-> answer]
    /\ UNCHANGED <<context, pages, checkpoint, tool_pc>>
    /\ UNCHANGED <<tree_vars, chunk_vars>>

\* Creating the client for the first chunk raises (line 594, outside the
\* try of generate_structure_from_content): batch_generate_structure_from_
\* content goes to its complete fallback (lines 662-674) and starts over.
CompleteFallback ==
    /\ tool_pc = "generating"
    /\ request.path = "sequential"
    /\ request.pending # None
    /\ request.n = 0
    /\ request.chunks > 1
    /\ request' = [request EXCEPT !.path = "independent", !.pending = None]
    /\ result' = [tool |-> "generate_structure",
                  answer |-> [kind |-> "client_error", items |-> <<>>]]
    /\ UNCHANGED <<context, pages, checkpoint, tool_pc>>
    /\ UNCHANGED <<tree_vars, chunk_vars>>

NoTocNext == IssueChunkRequest \/ ReceiveChunkAnswer \/ CompleteFallback

SpecNoToc == NoTocInit /\ [][NoTocNext]_vars

----------------------------------------------------------------------------
(* The structure processor and the configured enhancements *)

Flags == {"yes", "no"}

ProcessorConfigs ==
    [if_add_node_id : Flags, if_add_node_summary : Flags,
     if_add_node_text : Flags, if_add_doc_description : Flags]

\* The enhancements argument: None when the caller leaves it out.
EnhancementArguments == {None} \cup {Some(e) : e \in SUBSET EnhancementNames}

EnhanceInit ==
    /\ context = [NewContext EXCEPT !.structure_verified =
                     <<[title |-> 1, structure |-> <<1>>,
                        physical_index |-> <<1>>, list_index |-> 0]>>]
    /\ pages = 2
    /\ checkpoint = NoCheckpoint
    /\ \E config \in ProcessorConfigs, e \in EnhancementArguments :
          request = [n |-> 0, config |-> config, enhancements |-> e]
    /\ result = [tool |-> "none"]
    /\ tool_pc = "ready"
    /\ TreeStart("off")
    /\ ChunkOff

CallStructureProcessor ==
    /\ tool_pc = "ready"
    /\ request.n = 0
    /\ request' = [request EXCEPT !.n = 1]
    /\ \E starts \in [1..(Len(context.structure_verified) + 1) ->
                          {"yes", "no"}],
          enh_raised \in BOOLEAN :
          AfterCall(structure_processor_tool(to_dict(context), pages,
              determine_enhancements(request.enhancements, request.config),
              starts, enh_raised))
    /\ UNCHANGED pages
    /\ UNCHANGED <<tree_vars, chunk_vars>>

EnhanceNext == CallStructureProcessor

SpecEnhance == EnhanceInit /\ [][EnhanceNext]_vars

----------------------------------------------------------------------------
(* Properties of the tree assembler *)

TitlesOf(t) == [k \in 1..Len(TreeNodes(t)) |-> t.node[TreeNodes(t)[k]].title]

\* Both bounds of the node are page numbers.
HasRange(n) == n.start_index # None /\ n.end_index # None

\* Some page lies in the range of both nodes.
Overlap(n, m) ==
    /\ HasRange(n) /\ HasRange(m)
    /\ \E p \in (n.start_index[1])..(n.end_index[1]) :
          p \in (m.start_index[1])..(m.end_index[1])

\* The flat list is in document order: every item has a page and the pages
\* do not decrease along the list.
InDocumentOrder(data) ==
    /\ \A i \in 1..Len(data) : data[i].physical_index # None
    /\ \A i, j \in 1..Len(data) :
          i < j => data[i].physical_index[1] <= data[j].physical_index[1]

\* Every page of the list is a page of the document (what the verifier
\* leaves after clamping).
IndicesWithinDocument(data, pagecount) ==
    \A i \in 1..Len(data) :
        data[i].physical_index # None =>
            data[i].physical_index[1] \in 1..pagecount

\* C1: every item of the flat list handed to build_tree_structure is a node
\* of the assembled tree exactly once, so the tree has as many nodes as the
\* list has items.
C1_EveryItemOnce ==
    tree_pc = "done" =>
        /\ Len(TreeNodes(tree)) = Len(items)
        /\ \A i \in 1..Len(items) :
              Cardinality({k \in 1..Len(TitlesOf(tree)) :
                              TitlesOf(tree)[k] = items[i].title}) = 1

\* A tree built from three items among which one has no page, two share a
\* structure index and one names a parent that is absent.
C1_Witness ==
    /\ tree_pc = "done"
    /\ Len(items) = 3
    /\ \E i \in 1..3 : items[i].physical_index = None
    /\ \E i, j \in 1..3 :
          i < j /\ items[i].structure = items[j].structure
                /\ items[i].structure # None
    /\ \E i \in 1..3 :
          /\ Len(items[i].structure) = 2
          /\ \A j \in 1..i : items[j].structure # get_parent_structure(items[i].structure)

\* C3: every node of the assembled tree has end_index >= start_index (here
\* for lists whose pages all lie within the document).
C3_EndNotBeforeStart ==
    (tree_pc = "done" /\ IndicesWithinDocument(items, total_pages)) =>
        \A k \in SeqToSet(TreeNodes(tree)) :
            HasRange(tree.node[k]) =>
                tree.node[k].end_index[1] >= tree.node[k].start_index[1]

----------------------------------------------------------------------------
(* Properties of the chunker *)

\* The chunk is a run of consecutive pages in increasing order.
IsPageRun(chunk) ==
    \A j \in 1..(Len(chunk) - 1) : chunk[j + 1] = chunk[j] + 1

\* C6: the chunks together contain every page, each chunk holds consecutive
\* pages in document order and a later chunk ends on a later page; when the
\* total token count is within the budget there is exactly one chunk and
\* it holds all pages.
C6_EveryPageInSomeChunk ==
    chunk_pc = "done" =>
        /\ \A p \in 1..Len(token_lengths) :
              \E c \in 1..Len(subsets) : p \in SeqToSet(subsets[c])
        /\ \A c \in 1..Len(subsets) :
              /\ IsPageRun(subsets[c])
              /\ SeqToSet(subsets[c]) \subseteq 1..Len(token_lengths)
        /\ \A c, d \in 1..Len(subsets) :
              (c < d /\ subsets[c] # <<>>) =>
                  subsets[c][Len(subsets[c])] < subsets[d][Len(subsets[d])]
        /\ SumSeq(token_lengths) <= max_tokens =>
              subsets = <<PageRun(1, Len(token_lengths))>>

\* A page list over the budget that is split into three chunks, none of
\* them empty.
C6_Witness ==
    /\ chunk_pc = "done"
    /\ SumSeq(token_lengths) > max_tokens
    /\ Len(subsets) >= 3
    /\ \A c \in 1..Len(subsets) : subsets[c] # <<>>

\* C7: every chunk, with the overlap pages at its start counted, has a
\* token sum within the budget; the exception is a chunk holding a page
\* that exceeds the budget by itself.
C7_ChunkWithinBudget ==
    chunk_pc = "done" =>
        \A c \in 1..Len(subsets) :
            \/ ChunkTokens(token_lengths, subsets[c]) <= max_tokens
            \/ \E j \in 1..Len(subsets[c]) :
                  token_lengths[subsets[c][j]] > max_tokens

\* C8: no returned chunk is empty.
C8_NoEmptyChunk ==
    chunk_pc = "done" => \A c \in 1..Len(subsets) : subsets[c] # <<>>

\* C9: when more than one chunk is returned, every chunk after the first
\* begins with exactly the last overlap_page pages of the chunk before it
\* and the two share no other page.
C9_OverlapExactlyK ==
    (chunk_pc = "done" /\ Len(subsets) > 1) =>
        \A c \in 2..Len(subsets) :
            LET prev == subsets[c - 1]
                cur == subsets[c]
            IN  /\ Len(prev) >= overlap_page
                /\ Len(cur) >= overlap_page
                /\ SubSeq(cur, 1, overlap_page) =
                       SubSeq(prev, Len(prev) - overlap_page + 1, Len(prev))
                /\ Cardinality(SeqToSet(prev) \cap SeqToSet(cur)) = overlap_page

----------------------------------------------------------------------------
(* Properties of the verifier *)

\* C2: after a successful verification structure_verified has the items of
\* structure_raw, with the same titles in the same order, and an item whose
\* physical_index exceeded the page count is kept with physical_index null.
C2_NoItemLost ==
    (result.tool = "structure_verifier" /\ result.success) =>
        /\ Len(context.structure_verified) = Len(request.structure_raw)
        /\ \A i \in 1..Len(request.structure_raw) :
              /\ context.structure_verified[i].title =
                     request.structure_raw[i].title
              /\ (request.structure_raw[i].physical_index # None /\
                  request.structure_raw[i].physical_index[1] > pages) =>
                     context.structure_verified[i].physical_index = None

----------------------------------------------------------------------------
(* Properties of the extractor *)

\* The steps a log holds from its last "started" step on: those of the
\* latest call.
LastCall(log) ==
    LET starts == {i \in 1..Len(log) : log[i].status = "started"}
    IN  IF starts = {} THEN log
        ELSE SubSeq(log, CHOOSE i \in starts : \A j \in starts : j <= i,
                    Len(log))

\* Position of the step of the given status in a log, 0 when there is none.
StepIn(log, status) ==
    IF \E i \in 1..Len(log) : log[i].status = status
    THEN CHOOSE i \in 1..Len(log) : log[i].status = status
    ELSE 0

\* C10: structure_extractor_tool never raises; on a document with pages, a
\* TOC strategy whose precondition does not hold makes it run no_toc
\* instead and, if no_toc yields items, return success with strategy_used
\* no_toc and confidence 0.5; a requested no_toc that yields items returns
\* 0.6, a satisfied toc_with_pages / toc_no_pages that yields items returns
\* 0.9 / 0.7.
C10_FallbackPolicy ==
    result.tool = "structure_extractor" =>
        LET found == request.toc_info.found
            numbered == request.toc_info.has_page_numbers
            unmet ==
                \/ request.strategy = "toc_with_pages" /\ ~(found /\ numbered)
                \/ request.strategy = "toc_no_pages" /\ ~found
            no_toc_yields ==
                ~request.no_toc_run.raised /\ request.no_toc_run.items # <<>>
            toc_yields ==
                ~request.toc_run.raised /\ request.toc_run.items # <<>>
            Success(strategy, confidence) ==
                /\ result.success
                /\ result.metrics.strategy_used = strategy
                /\ result.confidence = confidence
        IN  /\ ~result.raised
            /\ pages > 0 =>
                /\ unmet =>
                      /\ StepIn(LastCall(checkpoint.processing_log),
                                "strategy_fallback") > 0
                      /\ StepIn(LastCall(checkpoint.processing_log),
                                "analyzing_content_structure") >
                             StepIn(LastCall(checkpoint.processing_log),
                                    "strategy_fallback")
                      /\ StepIn(LastCall(checkpoint.processing_log),
                                "transforming_toc") = 0
                /\ (unmet /\ no_toc_yields) => Success("no_toc", 5)
                /\ (request.strategy = "no_toc" /\ no_toc_yields) =>
                       Success("no_toc", 6)
                /\ (request.strategy = "toc_with_pages" /\ ~unmet
                        /\ toc_yields) => Success("toc_with_pages", 9)
                /\ (request.strategy = "toc_no_pages" /\ ~unmet
                        /\ toc_yields) => Success("toc_no_pages", 7)

\* toc_with_pages was requested without a TOC and the no_toc run that took
\* its place returned items.
C10_Witness ==
    /\ result.tool = "structure_extractor"
    /\ request.strategy = "toc_with_pages"
    /\ ~request.toc_info.found
    /\ result.success
    /\ result.metrics.strategy_used = "no_toc"
    /\ result.confidence = ConfFallback
    /\ Len(context.structure_raw) > 0

\* C11: a TOC strategy whose precondition holds but which raises or returns
\* no item is followed, within the same call, by one no_toc run whose
\* result is reported: when that no_toc run yields items the call succeeds
\* with strategy_used no_toc.
C11_FailedTocStrategyFallsBack ==
    (/\ result.tool = "structure_extractor"
     /\ pages > 0
     /\ request.strategy \in {"toc_with_pages", "toc_no_pages"}
     /\ toc_precondition(request.toc_info, request.strategy)
     /\ (request.toc_run.raised \/ request.toc_run.items = <<>>)
     /\ ~request.no_toc_run.raised
     /\ request.no_toc_run.items # <<>>) =>
        /\ ~result.raised
        /\ result.success
        /\ result.metrics.strategy_used = "no_toc"
        /\ context.structure_raw = request.no_toc_run.items

----------------------------------------------------------------------------
(* Properties of the structure processor *)

\* C13: after the preface and the start / end inference every page of the
\* document lies in the range of at least one node, also when items of the
\* list have no page.
C13_EveryPageCovered ==
    tree_pc = "processed" =>
        \A p \in 1..total_pages :
            \E k \in SeqToSet(TreeNodes(tree)) :
                /\ HasRange(tree.node[k])
                /\ tree.node[k].start_index[1] <= p
                /\ p <= tree.node[k].end_index[1]

\* C14: add_preface_if_needed puts the one item {structure "0", title
\* "Preface", physical_index 1} in front of the list exactly when the list
\* is empty or its first item has no page or a page after 1, and returns
\* the list unchanged otherwise; the original items stay in their order.
C14_PrefaceExactlyWhenNeeded ==
    tree_pc = "preface" =>
        LET needed == \/ items = <<>>
                      \/ items[1].physical_index = None
                      \/ items[1].physical_index[1] > 1
        IN  result.structure =
                IF needed
                THEN <<[structure |-> <<0>>, title |-> 0,
                        physical_index |-> <<1>>]>> \o items
                ELSE items

\* A preface was put in front of a list of several items whose first item
\* has no page.
C14_Witness ==
    /\ tree_pc = "preface"
    /\ Len(items) >= 2
    /\ items[1].physical_index = None
    /\ Len(result.structure) = Len(items) + 1

----------------------------------------------------------------------------
(* Properties of the pipeline on a paged TOC *)

\* The run of the end-to-end example: ten pages, two TOC entries claiming
\* pages 1 and 5, found by the oracle on pages 4 and 8 of the sample
\* window, and the three stages succeeded.
TwoSectionExample ==
    /\ result.tool = "structure_processor"
    /\ result.success
    /\ pages = 10
    /\ request.toc_structured = <<TocEntry(1, <<1>>), TocEntry(2, <<5>>)>>
    /\ request.toc_with_physical = <<(<<4>>), (<<8>>)>>
    /\ request.window_start <= 4

\* The node at position k of the assembled list has this title and range.
NodeIs(k, title, first, last) ==
    LET n == context.structure_final[1].node[k]
    IN  /\ n.title = title
        /\ n.start_index = <<first>>
        /\ n.end_index = <<last>>

----------------------------------------------------------------------------
(* Properties of the verifier: accuracy and confidence *)

\* The verifier succeeded on a list in which every kept item that has a page
\* was answered 'yes'.
VerifiedConsistent ==
    /\ result.tool = "structure_verifier"
    /\ result.success
    /\ \A i \in 1..Len(context.structure_verified) :
          context.structure_verified[i].physical_index # None =>
              request.answers[i] = "yes"

\* The result is that of a consistent list: accuracy 1.0, no incorrect
\* item, confidence 1.0, no repair attempt logged, and a second run on the
\* returned context with the same answers returns the same metrics, the
\* same confidence and the same physical indices.
SameOnRerun ==
    LET again == structure_verifier_tool(to_dict(context), pages,
                                         request.answers)
        Pages(list) == [i \in 1..Len(list) |-> list[i].physical_index]
    IN  /\ result.metrics.accuracy[1] = result.metrics.accuracy[2]
        /\ result.metrics.incorrect_items = 0
        /\ result.confidence = 10
        /\ \A i \in 1..Len(checkpoint.processing_log) :
              checkpoint.processing_log[i].status
                  \notin {"fix_attempt_1", "fix_attempt_2", "fix_attempt_3"}
        /\ again.result.success
        /\ again.result.metrics = result.metrics
        /\ again.result.confidence = result.confidence
        /\ Pages(again.result.context.structure_verified) =
               Pages(context.structure_verified)

C16_ConfidenceFollowsAccuracy ==
    (result.tool = "structure_verifier" /\ result.success) =>
        /\ (result.metrics.incorrect_items = 0
            /\ result.metrics.accuracy[1] = result.metrics.accuracy[2]) =>
               result.confidence = 10
        /\ result.metrics.incorrect_items > 0 => result.confidence < 10

----------------------------------------------------------------------------
(* Properties of the batcher *)

\* The batch in which item i was sent.
BatchOf(i) ==
    CHOOSE b \in 1..Len(result.batches) : i \in SeqToSet(result.batches[b])

\* C17: the results of a batched query hold one entry per item in the
\* caller's order, and an item left unresolved (its batch request failed,
\* the response did not parse or it holds no entry with the item's id) is
\* reported with an error, never as a result without error.
C17_UnresolvedItemHasError ==
    tool_pc = "batched" =>
        /\ Len(result.results) = Len(request.item_tokens)
        /\ \A i \in 1..Len(request.item_tokens) :
              /\ result.results[i].id = i
              /\ (\/ result.call[BatchOf(i)] # "ok"
                  \/ result.answer[i] = "missing") =>
                     result.results[i].error # "none"

----------------------------------------------------------------------------
(* Properties of process_pdf *)

\* The five stages in pipeline order.
Stages ==
    <<"pdf_parser", "toc_detector", "structure_extractor",
      "structure_verifier", "structure_processor">>

\* The conversation holds a success of the tool before position i.
SucceededBefore(tool, i) ==
    \E j \in 1..(i - 1) :
       request.messages[j] = [tool |-> tool, content |-> "success"]

\* C18: in a run of process_pdf, whatever order the agent calls the tools
\* in, a stage succeeds only after every earlier stage (parse, TOC check,
\* extraction, verification, assembly) has succeeded in that session.
C18_StagesNeverRunAhead ==
    \A i \in 1..Len(request.messages), k \in 1..Len(Stages) :
       request.messages[i] = [tool |-> Stages[k], content |-> "success"] =>
          \A j \in 1..(k - 1) : SucceededBefore(Stages[j], i)

\* s is an initial part of t.
IsPrefix(s, t) == Len(s) <= Len(t) /\ SubSeq(t, 1, Len(s)) = s

\* C19: the session's processing_log only grows: every step of process_pdf
\* leaves the events logged so far in place, in order, also across the
\* to_dict / from_dict of a tool call.
C19_AttemptLogAppendOnly ==
    [][IsPrefix(context.processing_log, context'.processing_log)]_vars

\* The statuses with which the tools log that they are done.
CompletionEvents == {"completed", "verification_complete"}

\* C20: after every tool call that succeeded, the checkpoint is the context
\* the tool returned and its last event is the completion event of that
\* tool; after every failure of process_pdf, the checkpoint is the agent's
\* context, holds at least one event, and its last event is the agent's
\* failure event.
C20_CheckpointAtBoundaryAndOnFailure ==
    /\ (tool_pc = "running" /\ result.tool # "none") =>
          /\ checkpoint # NoCheckpoint
          /\ checkpoint.processing_log # <<>>
          /\ LET last == checkpoint.processing_log[
                             Len(checkpoint.processing_log)]
             IN  last.tool = result.tool /\ last.status \in CompletionEvents
          /\ to_dict(checkpoint) = result.context
          /\ context = from_dict(result.context)
    /\ tool_pc = "raised" =>
          /\ checkpoint # NoCheckpoint
          /\ Len(checkpoint.processing_log) >= 1
          /\ checkpoint.processing_log[Len(checkpoint.processing_log)]
                = Event("agent", "failed")
          /\ checkpoint = save_checkpoint(context)

\* Four stages succeeded and left their checkpoints, then the assembly
\* failed and process_pdf raised.
C20_Witness ==
    /\ tool_pc = "raised"
    /\ result.tool = "structure_processor"
    /\ \A k \in 1..4 :
          SucceededBefore(Stages[k], Len(request.messages) + 1)

----------------------------------------------------------------------------
(* Properties of calculate_page_offset *)

\* The entries that count: a claimed page, and a title found at or after
\* the start of the sample window.
CountedEntries ==
    {i \in 1..Len(request.toc_structured) :
        /\ request.toc_structured[i].page # None
        /\ request.toc_with_physical[i] # None
        /\ request.toc_with_physical[i][1] >= request.window_start}

\* Observed physical page minus claimed page of entry i.
DifferenceOf(i) ==
    request.toc_with_physical[i][1] - request.toc_structured[i].page[1]

\* The counted entries whose difference is d.
Agreeing(d) == {i \in CountedEntries : DifferenceOf(i) = d}

\* C21: calculate_page_offset returns 0 when no entry counts, else a
\* difference that no other difference occurs more often than; when a
\* strict majority of the counted entries agree on one offset and the rest
\* are off by one, it returns that offset.
C21_ModalOffset ==
    tool_pc = "offset" =>
        /\ CountedEntries = {} => result.offset = 0
        /\ CountedEntries # {} =>
              /\ Agreeing(result.offset) # {}
              /\ \A i \in CountedEntries :
                    Cardinality(Agreeing(DifferenceOf(i)))
                        <= Cardinality(Agreeing(result.offset))
        /\ \A i \in CountedEntries :
              (/\ 2 * Cardinality(Agreeing(DifferenceOf(i)))
                      > Cardinality(CountedEntries)
               /\ \A j \in CountedEntries :
                     DifferenceOf(j) - DifferenceOf(i) \in {-1, 0, 1})
                 => result.offset = DifferenceOf(i)

\* Three counted entries: the first is off by one, the other two agree on
\* the true offset 2, which is returned.
C21_Witness ==
    /\ tool_pc = "offset"
    /\ Cardinality(CountedEntries) = 3
    /\ DifferenceOf(1) = 1
    /\ Cardinality(Agreeing(2)) = 2
    /\ result.offset = 2

----------------------------------------------------------------------------
(* Properties of the start / end inference *)

\* C22: in the assembled tree, the node of item i starts on the
\* physical_index of item i; the node of the last item ends on the last
\* page; the node of any other item ends on the page before the next
\* item's page when the next item has appear_start "yes", on the next
\* item's page when it has a page and another appear_start, and on its own
\* start_index when the next item has no page.
C22_StartEndInference ==
    tree_pc = "done" =>
        /\ Len(tree.node) = Len(items)
        /\ \A i \in 1..Len(items) :
              /\ tree.node[i].start_index = items[i].physical_index
              /\ i = Len(items) =>
                    tree.node[i].end_index = Some(total_pages)
              /\ (i < Len(items) /\ items[i + 1].physical_index = None) =>
                    tree.node[i].end_index = tree.node[i].start_index
              /\ (i < Len(items) /\ items[i + 1].physical_index # None
                        /\ items[i + 1].appear_start = "yes") =>
                    tree.node[i].end_index
                        = Some(items[i + 1].physical_index[1] - 1)
              /\ (i < Len(items) /\ items[i + 1].physical_index # None
                        /\ items[i + 1].appear_start # "yes") =>
                    tree.node[i].end_index = items[i + 1].physical_index

\* Three items: the second starts its page, the third has no page.
C22_Witness ==
    /\ tree_pc = "done"
    /\ Len(items) = 3
    /\ items[1].physical_index = Some(1)
    /\ items[2].physical_index = Some(2)
    /\ items[2].appear_start = "yes"
    /\ items[3].physical_index = None
    /\ tree.node[1].end_index = Some(1)
    /\ tree.node[2].end_index = Some(2)
    /\ tree.node[3].end_index = Some(total_pages)

----------------------------------------------------------------------------
(* Properties of list_to_tree *)

\* The items before item i whose structure index is the index of item i
\* without its last component; none for an index of one component or none.
EarlierParents(i) ==
    IF items[i].structure = None \/ Len(items[i].structure) <= 1
    THEN {}
    ELSE {j \in 1..(i - 1) :
             items[j].structure
                 = SubSeq(items[i].structure, 1,
                          Len(items[i].structure) - 1)}

\* The sibling lists that hold node i.
ListsHolding(i) ==
    (IF i \in SeqToSet(tree.root_nodes) THEN {<<"root", 0>>} ELSE {})
    \cup {<<"child", k>> : k \in {k \in DOMAIN tree.kids :
                                     i \in SeqToSet(tree.kids[k])}}

Increasing(s) == \A a, b \in 1..Len(s) : a < b => s[a] < s[b]

\* C23: list_to_tree makes an item a child of the latest earlier item whose
\* index is the item's index without its last component, and a root when
\* there is no such item (index of one component, no index, or parent not
\* placed before it); roots and children keep the order of the list.
C23_NestingByStructureIndex ==
    tree_pc = "nested" =>
        /\ \A i \in 1..Len(items) :
              IF EarlierParents(i) = {}
              THEN ListsHolding(i) = {<<"root", 0>>}
              ELSE ListsHolding(i)
                       = {<<"child",
                            CHOOSE j \in EarlierParents(i) :
                               \A h \in EarlierParents(i) : h <= j>>}
        /\ \A s \in SiblingLists(tree) : Increasing(s)

\* Items "1", "1.1", "1.1.1": the third item hangs under the second, not
\* under the first.
C23_Witness ==
    /\ tree_pc = "nested"
    /\ Len(items) = 3
    /\ items[1].structure = <<1>>
    /\ items[2].structure = <<1, 1>>
    /\ items[3].structure = <<1, 1, 1>>
    /\ tree.root_nodes = <<1>>
    /\ tree.kids[1] = <<2>>
    /\ tree.kids[2] = <<3>>

----------------------------------------------------------------------------
(* Properties of _split_items_by_token_limit *)

RECURSIVE Concat(_)
Concat(lists) ==
    IF lists = <<>> THEN <<>> ELSE Head(lists) \o Concat(Tail(lists))

\* Tokens of the request made for a batch: the base prompt and its items.
BatchTokens(batch) ==
    request.base_tokens
        + SumSeq([k \in 1..Len(batch) |-> request.item_tokens[batch[k]]])

\* The batches are non-empty and, put end to end, are the input list.
IsPartitionInOrder(batches) ==
    /\ \A b \in 1..Len(batches) : batches[b] # <<>>
    /\ Concat(batches) = [i \in 1..Len(request.item_tokens) |-> i]

\* C24 as claimed: the batches partition the items in order and every
\* batch, with the base prompt, is within max_tokens.
C24_BatchesWithinLimit ==
    tool_pc = "batched" =>
        /\ IsPartitionInOrder(result.batches)
        /\ \A b \in 1..Len(result.batches) :
              BatchTokens(result.batches[b]) <= request.max_tokens

\* C24: the batches partition the items in order, and a batch is over
\* max_tokens only when it holds a single item that does not fit next to
\* the base prompt on its own.
C24_BatchesWithinLimitUnlessOneItem ==
    tool_pc = "batched" =>
        /\ IsPartitionInOrder(result.batches)
        /\ \A b \in 1..Len(result.batches) :
              \/ BatchTokens(result.batches[b]) <= request.max_tokens
              \/ Len(result.batches[b]) = 1

\* Two items that fit one by one but not together are split into two
\* batches, each within the limit.
C24_Witness ==
    /\ tool_pc = "batched"
    /\ Len(request.item_tokens) = 2
    /\ request.base_tokens + request.item_tokens[1] + request.item_tokens[2]
           > request.max_tokens
    /\ result.batches = <<<<1>>, <<2>>>>
    /\ \A b \in 1..2 : BatchTokens(result.batches[b]) <= request.max_tokens

----------------------------------------------------------------------------
(* Properties of the matching of a TOC without page numbers *)

\* The new list has the entries of the old one, in order, and every entry
\* that had a physical_index still has that one.
ResolvedKept(old, new) ==
    /\ Len(new) = Len(old)
    /\ \A i \in 1..Len(old) :
          /\ new[i].title = old[i].title
          /\ old[i].physical_index # None =>
                new[i].physical_index = old[i].physical_index

\* C25: processing a chunk, on the batch path or one by one, leaves the
\* list of TOC entries as it is (count, titles, order) and keeps every
\* physical_index an earlier chunk has set.
C25_ResolvedEntriesKept ==
    [][request'.n = request.n + 1 =>
          ResolvedKept(request.toc_items, request'.toc_items)]_vars

----------------------------------------------------------------------------
(* Properties of the extraction without a TOC *)

\* The sections of all the answers received so far, in order.
RECURSIVE AnswersAccumulated(_)
AnswersAccumulated(answers) ==
    IF answers = <<>> THEN <<>>
    ELSE Head(answers).items \o AnswersAccumulated(Tail(answers))

\* C26: while the request for a chunk after the first is in flight, the
\* structure holds the sections of every earlier answer, and the prompt of
\* the request shows the end of that structure; at most one request is in
\* flight (request.pending holds one request or none).
C26_StrictlySequential ==
    (tool_pc = "generating" /\ request.pending # None
        /\ request.pending[1].chunk > 1) =>
        /\ Len(request.answers) = request.pending[1].chunk - 1
        /\ request.structure.is_list
        /\ request.structure.items = AnswersAccumulated(request.answers)
        /\ request.pending[1].existing_structure
               = Some(LastN(AnswersAccumulated(request.answers), 3))

----------------------------------------------------------------------------
(* Properties of the repair of a verified structure *)

\* C27: when the verifier measures an accuracy below accuracy_threshold
\* with at least one incorrect item, the call runs at least one repair
\* round (logged as fix_attempt_1) before it returns.
C27_RepairBelowThreshold ==
    (result.tool = "structure_verifier" /\ result.success
        /\ result.metrics.incorrect_items > 0
        /\ 10 * result.metrics.accuracy[1]
               < AccuracyThreshold * result.metrics.accuracy[2]) =>
        StepIn(LastCall(checkpoint.processing_log), "fix_attempt_1") > 0

----------------------------------------------------------------------------
(* Properties of the agent loop *)

\* C28: process_pdf uses at most max_iterations rounds; when the agent
\* stops asking for tool calls and there is a final structure, process_pdf
\* returns; it raises "Maximum iterations reached" only when the agent
\* asked for a tool call in the last round as well.
C28_ReturnsWhenAgentStops ==
    /\ request.n <= max_iterations
    /\ (result.tool = "process_pdf" /\ result.stopped
            /\ context.structure_final # None) => tool_pc = "returned"
    /\ (result.tool = "process_pdf" /\ result.error = "max_iterations") =>
          ~result.stopped

----------------------------------------------------------------------------
(* Properties of the verified pages *)

\* C29: after the verification every page in structure_verified, and every
\* start_index of the assembled tree, is a page of the document, 1..pages,
\* also when the TOC's page plus the offset is zero or below.
C29_VerifiedPagesInDocument ==
    /\ \A i \in 1..Len(context.structure_verified) :
          context.structure_verified[i].physical_index # None =>
              context.structure_verified[i].physical_index[1] \in 1..pages
    /\ context.structure_final # None =>
          \A k \in 1..Len(context.structure_final[1].node) :
              context.structure_final[1].node[k].start_index # None =>
                  context.structure_final[1].node[k].start_index[1]
                      \in 1..pages

----------------------------------------------------------------------------
(* Properties of the configured enhancements *)

\* C30: when structure_processor_tool is called without an enhancements
\* list, the final result has node_id, summary, text and doc_description
\* exactly for the flags if_add_node_id, if_add_node_summary,
\* if_add_node_text and if_add_doc_description that are "yes".
C30_FlagsDecideEnhancements ==
    (request.n = 1 /\ request.enhancements = None
        /\ result.tool = "structure_processor" /\ result.success) =>
        LET fields == context.structure_final[1].fields
            config == request.config
        IN  /\ ("node_id" \in fields) = (config.if_add_node_id = "yes")
            /\ ("summary" \in fields) = (config.if_add_node_summary = "yes")
            /\ ("text" \in fields) = (config.if_add_node_text = "yes")
            /\ ("doc_description" \in fields)
                   = (config.if_add_doc_description = "yes")

====
